---- MODULE Spec2Model ----
(***************************************************************************)
(* Model of the Windows host-window controller and host-window entity of   *)
(* the Flutter Windows embedder:                                           *)
(*   shell/platform/windows/flutter_host_window_controller.cc              *)
(*   shell/platform/windows/flutter_host_window.cc                         *)
(*                                                                         *)
(* Everything runs on the one thread that owns the message pump.  The      *)
(* application callback (on_message_) runs synchronously and may call back *)
(* into the controller, so the model keeps an explicit call stack: a       *)
(* handler that invokes the callback is split at the invocation.           *)
(***************************************************************************)
EXTENDS Integers, Sequences, FiniteSets, TLC

\* ---------------------------------------------------------------- bounds
MaxCreates == 1   \* window constructions attempted
MaxEvents  == 3   \* native messages dispatched to the window procedure
MaxDepth   == 4   \* frames on the call stack
MaxInit    == 2   \* calls of Initialize
MaxConstructions == 2   \* constructions in the constructor's own specification
MaxWindows == 3   \* constructions next to the host window's own operations

\* std::isinf(x): the one non-finite size component
Inf == 999

VARIABLES
  on_message_,        \* controller: TRUE when the callback pointer is non-null
  isolate_,           \* controller: TRUE when the optional isolate has a value
  pending_messages_,  \* controller: messages buffered before Initialize
  active_windows_,    \* controller: registry, handle -> entity
  native,             \* Win32: handles of the native windows that exist
  props,              \* Win32: handles carrying the instance property
  views,              \* engine: top-level handle -> id of the view parented in it
  stack,              \* call stack, innermost frame last
  delivered,          \* history: ids of the messages passed to the callback
  everBuffered,       \* history: ids of the messages appended to the buffer
  nextId,             \* id of the next native message
  nextHandle,         \* next handle CreateWindowEx hands out
  nextViewId,         \* next view id the engine hands out
  lastReturn,         \* the HandleMessage call that returned most recently
  lastCreate,         \* the window construction that ran most recently
  numCreates,         \* window constructions attempted so far
  initCalls,          \* Initialize calls so far
  shutdown,           \* "no", "running", "done": progress of OnEngineShutdown
  null_invoked,       \* TRUE once a null on_message_ has been called
  crashed,            \* TRUE once the process has died
  lastSizes,          \* size bounds and scale factor of the latest construction
  lastOp,             \* the latest call of a host window's own operation
  placement,          \* Win32: handle -> show state of a window that left the normal one
  lastPlace           \* the latest call of PlaceWindow: its arguments and its result

vars == <<on_message_, isolate_, pending_messages_, active_windows_, native,
          props, views, stack, delivered, everBuffered, nextId, nextHandle,
          nextViewId, lastReturn, lastCreate, numCreates, initCalls,
          shutdown, null_invoked, crashed, lastSizes, lastOp, placement,
          lastPlace>>

controllerVars == <<on_message_, isolate_, pending_messages_>>
messageVars == <<delivered, everBuffered, nextId, lastReturn,
                 null_invoked, crashed>>
createVars == <<native, views, nextHandle, nextViewId, lastCreate, numCreates>>
entityVars == <<lastSizes, lastOp, placement, lastPlace>>

\* ------------------------------------------------------------ small helpers
Erase(f, k) == [x \in DOMAIN f \ {k} |-> f[x]]

Put(f, k, v) == [x \in DOMAIN f \cup {k} |-> IF x = k THEN v ELSE f[x]]

RECURSIVE SortedSeq(_)
SortedSeq(S) ==
  IF S = {} THEN <<>>
  ELSE LET m == CHOOSE x \in S : \A y \in S : x <= y
       IN <<m>> \o SortedSeq(S \ {m})

Top == stack[Len(stack)]

Pop == SubSeq(stack, 1, Len(stack) - 1)

None == <<>>

Some(x) == <<x>>

Size(w, h) == [w |-> w, h |-> h]

\* std::clamp(v, lo, hi)
clamp(v, lo, hi) == IF v < lo THEN lo ELSE IF hi < v THEN hi ELSE v

\* ------------------------------------------------------------ value domains
ScaleFactors == {1, 2}   \* GetDpiForHWND(owner) / USER_DEFAULT_SCREEN_DPI

Archetypes == {"kRegular", "kPopup"}

WindowStates == {"kRestored", "kMaximized", "kMinimized"}

\* What CreateWindowEx can do: fail before the window procedure has seen the
\* window, fail after WM_NCCREATE was dispatched (DefWindowProc refusing the
\* message, or a later creation step failing), or return the new handle.
CreateWindowExOutcomes == {"null_before_nccreate", "null_after_nccreate", "hwnd"}

\* The environment of one construction: whether the engine creates the view,
\* whether the window class can be registered, what CreateWindowEx does, and
\* the scale factor of the owner's display.  A step the constructor does not
\* reach has one value only.
Envs ==
  {e \in [view : BOOLEAN, class : BOOLEAN, create : CreateWindowExOutcomes,
          scale : ScaleFactors] :
     /\ ~e.view => e.class
     /\ ~(e.view /\ e.class) => e.create = "hwnd"}

\* The WindowCreationRequest values exercised: a minimum below the maximum
\* and one above it.
Requests == [width : {1}, height : {1}, min_width : {0, 2}, min_height : {0},
             max_width : {1}, max_height : {1}]

\* A window without owner is measured at the DPI of the primary display.
RequestEnvs == {e \in Envs : e.scale = 1}

\* Logical bounds offered to the constructor next to the other settings: no
\* minimum or one minimum; no maximum or a maximum of infinite width whose
\* height is below the minimum.
OptMinSizes == {None, Some(Size(1, 2))}

OptMaxSizes == {None, Some(Size(Inf, 1))}

PumpMessages == {"WM_SIZE"}

CallbackResults == {0, 1}

\* ------------------------------------------------------------ host window
isinf(x) == x = Inf

Scale(x, f) == IF isinf(x) THEN Inf ELSE x * f

\* FlutterHostWindowController::GetHostWindow(view_id): the registered entity
\* that holds the view.
GetHostWindow(view_id) ==
  LET hs == {h \in DOMAIN active_windows_ : active_windows_[h].view_id = view_id}
  IN IF hs = {} THEN 0 ELSE CHOOSE h \in hs : TRUE

\* The view ids that name a registered window: what parent_view_id may hold.
ParentViewIds == {active_windows_[h].view_id : h \in DOMAIN active_windows_}

\* GetThisFromHandle(hwnd): non-null while the instance property is set.
GetThisFromHandle(hwnd) == hwnd \in props

\* Mutant: a popup is let through without an owner.
PreconditionsHold_PopupWithoutOwner(archetype, owner, positioner) ==
  IF archetype = "kRegular"
  THEN owner = 0 /\ ~positioner
  ELSE positioner

\* The two preconditions of each archetype (constructor, switch on archetype_).
PreconditionsHold(archetype, owner, positioner) ==
  IF archetype = "kRegular"
  THEN owner = 0 /\ ~positioner
  ELSE positioner /\ owner # 0

\* Mutant: only the widths are compared.
SizeConstraintsValid_WidthOnly(min_size, max_size) ==
  ~(/\ min_size # None
    /\ max_size # None
    /\ min_size[1].w > max_size[1].w)

\* "Validate size constraints": FALSE when both bounds are given and the
\* minimum exceeds the maximum in a component.
SizeConstraintsValid(min_size, max_size) ==
  ~(/\ min_size # None
    /\ max_size # None
    /\ \/ min_size[1].w > max_size[1].w
       \/ min_size[1].h > max_size[1].h)

\* A bound with an infinite component is discarded.
DiscardInfinite(size) ==
  IF size # None /\ (isinf(size[1].w) \/ isinf(size[1].h)) THEN None ELSE size

\* min_size_ / max_size_: the logical bound in physical coordinates.
PhysicalSize(size, scale) ==
  IF size = None THEN None
  ELSE Some(Size(Scale(size[1].w, scale), Scale(size[1].h, scale)))

\* How far the constructor gets: the name of the step at which it returns.
\* CreateWindowEx refuses an owner handle that names no window.
ConstructionStage(settings, owner, env) ==
  IF ~PreconditionsHold(settings.archetype, owner, settings.positioner)
    THEN "precondition"
  ELSE IF ~SizeConstraintsValid(settings.min_size, settings.max_size)
    THEN "size_constraints"
  ELSE IF ~env.view THEN "create_view"
  ELSE IF ~env.class THEN "register_class"
  ELSE IF owner # 0 /\ owner \notin native THEN "null_before_nccreate"
  ELSE env.create

SizesStored(stage) == stage \notin {"precondition", "size_constraints"}

ViewCreated(stage) ==
  stage \in {"register_class"} \cup CreateWindowExOutcomes

\* WndProc on WM_NCCREATE stores the new handle in window_handle_; the
\* constructor stores it again at its end and never clears it.
HandleAfterConstruction(stage) ==
  IF stage \in {"null_after_nccreate", "hwnd"} THEN nextHandle ELSE 0

\* Default member initializers of pending_show_ and
\* enable_redraw_non_client_as_inactive_ (class definition).
PendingShowInitially == TRUE

RedrawAsInactiveInitially == TRUE

\* FlutterHostWindow::FlutterHostWindow(controller, settings): the entity as
\* the constructor leaves it.  gw_owner is not a member: it is what
\* GetWindow(window_handle_, GW_OWNER) answers for the entity's window.
FlutterHostWindowCtor(settings, env) ==
  LET owner == IF settings.parent_view_id # 0
               THEN GetHostWindow(settings.parent_view_id)
               ELSE 0
      stage == ConstructionStage(settings, owner, env)
  IN [stage |-> stage,
      owner |-> owner,
      window |->
        [archetype_ |-> settings.archetype,
         window_handle_ |-> HandleAfterConstruction(stage),
         view_id |-> IF ViewCreated(stage) THEN nextViewId ELSE 0,
         min_size_ |-> IF SizesStored(stage)
                       THEN PhysicalSize(DiscardInfinite(settings.min_size), env.scale)
                       ELSE None,
         max_size_ |-> IF SizesStored(stage)
                       THEN PhysicalSize(DiscardInfinite(settings.max_size), env.scale)
                       ELSE None,
         state_ |-> IF stage = "hwnd"
                    THEN (IF settings.state = None THEN "kRestored" ELSE settings.state[1])
                    ELSE "none",
         owned_windows_ |-> {},
         num_owned_popups_ |-> 0,
         pending_show_ |-> PendingShowInitially,
         enable_redraw_non_client_as_inactive_ |-> RedrawAsInactiveInitially,
         child_content_ |-> stage = "hwnd",
         gw_owner |-> IF stage = "hwnd" THEN owner ELSE 0]]

\* Mutant: the owner's num_owned_popups_ is not incremented.
OwnerUpdated_NotCounted(reg, c) ==
  IF c.stage = "hwnd" /\ c.owner # 0 /\ GetThisFromHandle(c.owner)
     /\ c.owner \in DOMAIN reg
  THEN [reg EXCEPT
          ![c.owner].owned_windows_ = @ \cup {c.window.window_handle_}]
  ELSE reg

\* "Update the properties of the owner window" at the end of a successful
\* construction.
OwnerUpdated(reg, c) ==
  IF c.stage = "hwnd" /\ c.owner # 0 /\ GetThisFromHandle(c.owner)
     /\ c.owner \in DOMAIN reg
  THEN [reg EXCEPT
          ![c.owner].owned_windows_ = @ \cup {c.window.window_handle_},
          ![c.owner].num_owned_popups_ =
             IF c.window.archetype_ = "kPopup" THEN @ + 1 ELSE @]
  ELSE reg

\* CreateWindow_ after the constructor: the value returned.
CreateWindowResult(window) ==
  IF window.window_handle_ = 0 THEN 0 ELSE window.view_id

\* CreateWindow_ after the constructor: the registry.
Registered(reg, window) ==
  IF window.window_handle_ = 0 THEN reg
  ELSE Put(reg, window.window_handle_, window)

\* settings as CreateWindow_ fills them from a request: min_size always,
\* max_size only when both of its components are non-zero.
SettingsFromRequest(request) ==
  [archetype |-> "kRegular",
   parent_view_id |-> 0,
   positioner |-> FALSE,
   size |-> Size(request.width, request.height),
   min_size |-> Some(Size(request.min_width, request.min_height)),
   max_size |-> IF request.max_width # 0 /\ request.max_height # 0
                THEN Some(Size(request.max_width, request.max_height))
                ELSE None,
   state |-> None]

\* std::make_unique<FlutterHostWindow>(this, settings) followed by the
\* registration of CreateWindow_.
CreateHostWindow(settings, env) ==
  LET c == FlutterHostWindowCtor(settings, env)
      w == c.window
      created == c.stage = "hwnd"
  IN /\ numCreates' = numCreates + 1
     /\ active_windows_' = Registered(OwnerUpdated(active_windows_, c), w)
     /\ nextViewId' = IF ViewCreated(c.stage) THEN nextViewId + 1 ELSE nextViewId
     /\ nextHandle' = IF w.window_handle_ # 0 THEN nextHandle + 1 ELSE nextHandle
     /\ native' = IF created THEN native \cup {w.window_handle_} ELSE native
     /\ props' = IF created THEN props \cup {w.window_handle_} ELSE props
     /\ views' = IF created THEN Put(views, w.window_handle_, w.view_id) ELSE views
     /\ lastCreate' = [n |-> numCreates + 1,
                       archetype |-> settings.archetype,
                       owner |-> c.owner,
                       positioner |-> settings.positioner,
                       stage |-> c.stage,
                       hwnd |-> IF created THEN w.window_handle_ ELSE 0,
                       window_handle_ |-> w.window_handle_,
                       view_id |-> w.view_id,
                       ret |-> CreateWindowResult(w)]

\* ------------------------------------------------------------ call stack
\* One frame per function that is waiting for a call it made to return.
\*   Initialize        idx: index of the next buffered message to replay
\*   on_message        the callback, running for message ms
\*   DestroyWindow     Win32 destroying hwnd; message: the next one it sends
\*   OnEngineShutdown  handles: the snapshot; idx: the next one to destroy
\*   CloseOwnedPopups  handles: the popups; idx: the next one to close;
\*                     count: previous_num_owned_popups
Frame(op, hwnd, message, ms, idx, handles, caller) ==
  [op |-> op, hwnd |-> hwnd, message |-> message, ms |-> ms, idx |-> idx,
   handles |-> handles, caller |-> caller, count |-> 0]

NoMessage ==
  [id |-> 0, view_id |-> 0, hwnd |-> 0, message |-> "none", result |-> 0,
   handled |-> FALSE]

InitializeFrame(idx) ==
  Frame("Initialize", 0, "none", NoMessage, idx, <<>>, "none")

CallbackFrame(ms, caller) ==
  Frame("on_message", ms.hwnd, ms.message, ms, 0, <<>>, caller)

DestroyWindowFrame(hwnd, message) ==
  Frame("DestroyWindow", hwnd, message, NoMessage, 0, <<>>, "none")

ShutdownFrame(handles, idx) ==
  Frame("OnEngineShutdown", 0, "none", NoMessage, idx, handles, "none")

\* Code outside the controller runs: the message pump is idle, or the
\* callback is executing and may call back in.
CallerRuns ==
  /\ ~crashed
  /\ IF stack = <<>> THEN TRUE ELSE Top.op = "on_message"

TopLevel == ~crashed /\ stack = <<>>

BeingDestroyed(hwnd) ==
  \E i \in 1..Len(stack) : stack[i].op = "DestroyWindow" /\ stack[i].hwnd = hwnd

\* ------------------------------------------------------------ HandleMessage
\* The WindowsMessage that HandleMessage builds.
MessageStruct(id, hwnd, message) ==
  [id |-> id, view_id |-> IF hwnd \in DOMAIN views THEN views[hwnd] ELSE 0,
   hwnd |-> hwnd, message |-> message, result |-> 0, handled |-> FALSE]

\* Mutant: WM_NCDESTROY leaves the entity registered.
RegistryAfter_NoErase(hwnd, message) == active_windows_

\* The first step of HandleMessage: WM_NCDESTROY erases the entity.
RegistryAfter(hwnd, message) ==
  IF message = "WM_NCDESTROY" THEN Erase(active_windows_, hwnd)
  ELSE active_windows_

\* Mutant: the result slot is returned whether or not handled is set.
HandleMessageResult_IgnoresHandled(ms) == Some(ms.result)

\* The tail of HandleMessage: the callback's result only if it set handled.
HandleMessageResult(ms) ==
  IF ms.handled THEN Some(ms.result) ELSE None

\* Mutant: HandleMessage tests the callback pointer instead of the isolate.
NotInitializedYet_TestsCallback == ~on_message_

\* "Not initialized yet": whether HandleMessage buffers instead of forwarding.
NotInitializedYet == ~isolate_

\* Mutant: the missing view is not tested.
Disposition_NoViewCheck(hasView) ==
  IF ~isolate_ THEN "buffer"
  ELSE IF on_message_ THEN "forward"
  ELSE "null_call"

\* What HandleMessage does with a message once the registry is updated:
\* drop it (no view), buffer it, call on_message_, or call a null on_message_.
Disposition(hasView) ==
  IF ~hasView THEN "drop"
  ELSE IF NotInitializedYet THEN "buffer"
  ELSE IF on_message_ THEN "forward"
  ELSE "null_call"

Returned(ms, view, buffered, invoked, ret) ==
  [id |-> ms.id, view |-> view,
   buffered |-> buffered, invoked |-> invoked, handled |-> ms.handled,
   result |-> ms.result, ret |-> ret]

\* FlutterHostWindowController::HandleMessage(hwnd, message) up to its return
\* or to its call of on_message_.  hasView is what GetViewFromTopLevelWindow
\* answers, ub what calling a null on_message_ does, base the stack of the
\* caller.
HandleMessage(hwnd, message, hasView, ub, base) ==
  LET ms == MessageStruct(nextId, hwnd, message)
      erased == message = "WM_NCDESTROY" /\ hwnd \in DOMAIN active_windows_
      what == Disposition(hasView)
  IN /\ nextId <= MaxEvents
     /\ Len(base) < MaxDepth
     /\ nextId' = nextId + 1
     /\ active_windows_' = RegistryAfter(hwnd, message)
        \* ~FlutterHostWindow: RemoveInstanceProperty; its DestroyWindow finds
        \* the window already in destruction.
     /\ props' = IF erased THEN props \ {hwnd} ELSE props
     /\ IF what = "drop"
        THEN \* "Received message for unknown view"
             /\ lastReturn' = Returned(ms, hasView, FALSE, FALSE, None)
             /\ stack' = base
             /\ UNCHANGED <<pending_messages_, everBuffered, delivered,
                            null_invoked, crashed>>
        ELSE IF what = "buffer"
        THEN /\ pending_messages_' = Append(pending_messages_, ms)
             /\ everBuffered' = Append(everBuffered, ms.id)
             /\ lastReturn' = Returned(ms, hasView, TRUE, FALSE, None)
             /\ stack' = base
             /\ UNCHANGED <<delivered, null_invoked, crashed>>
        ELSE IF what = "forward"
        THEN /\ delivered' = Append(delivered, ms.id)
             /\ stack' = Append(base, CallbackFrame(ms, "HandleMessage"))
             /\ UNCHANGED <<pending_messages_, everBuffered, lastReturn,
                            null_invoked, crashed>>
        ELSE \* on_message_ is null: the call is undefined behaviour
             /\ null_invoked' = TRUE
             /\ IF ub = "crash"
                THEN /\ crashed' = TRUE
                     /\ stack' = base
                     /\ UNCHANGED lastReturn
                ELSE /\ crashed' = crashed
                     /\ stack' = base
                     /\ lastReturn' = Returned(ms, hasView, FALSE, FALSE,
                                               HandleMessageResult(ms))
             /\ UNCHANGED <<pending_messages_, everBuffered, delivered>>

\* FlutterHostWindow::WndProc after WM_NCCREATE: a window with the instance
\* property hands the message to the controller, any other one to
\* DefWindowProc.
WndProc(hwnd, message, hasView, ub, base) ==
  IF GetThisFromHandle(hwnd)
  THEN HandleMessage(hwnd, message, hasView, ub, base)
  ELSE /\ stack' = base
       /\ UNCHANGED <<active_windows_, props, pending_messages_>>
       /\ UNCHANGED messageVars

\* What GetViewFromTopLevelWindow may answer for hwnd: a view only when one
\* was parented into the window.
ViewAnswers(hwnd) == IF hwnd \in DOMAIN views THEN BOOLEAN ELSE {FALSE}

UBOutcomes == {"crash", "return"}

\* ------------------------------------------------------------ initial state
NoReturn ==
  [id |-> 0, view |-> FALSE,
   buffered |-> FALSE, invoked |-> FALSE, handled |-> FALSE, result |-> 0,
   ret |-> None]

NoSizes == [n |-> 0, min_size |-> None, max_size |-> None, scale |-> 1]

\* MINMAXINFO as WM_GETMINMAXINFO leaves it: the track sizes written.
NoInfo ==
  [min |-> None, max |-> None, non_client |-> Size(0, 0),
   screen |-> Size(0, 0)]

NoOp ==
  [seq |-> 0, op |-> "none", hwnd |-> 0, wparam |-> FALSE, lparam |-> 0,
   ret |-> "none", count |-> 0, closed |-> {}, show_cmd |-> "none",
   calls |-> {}, info |-> NoInfo, size |-> None]

NoPlace ==
  [n |-> 0,
   x |-> [anchor |-> "start", popup |-> "start", offset |-> 0, frame |-> 0,
          anchor_rect |-> [lo |-> 0, hi |-> 0]],
   y |-> [anchor |-> "start", popup |-> "start", offset |-> 0, frame |-> 0,
          anchor_rect |-> [lo |-> 0, hi |-> 0]],
   rect |-> [left |-> 0, top |-> 0, width |-> 0, height |-> 0]]

NoCreate ==
  [n |-> 0, archetype |-> "kRegular", owner |-> 0, positioner |-> FALSE,
   stage |-> "none", hwnd |-> 0, window_handle_ |-> 0, view_id |-> 0,
   ret |-> 0]

\* Everything but the record of the placement solver.
InitProgram ==
  /\ on_message_ = FALSE
  /\ isolate_ = FALSE
  /\ pending_messages_ = <<>>
  /\ active_windows_ = <<>>
  /\ native = {}
  /\ props = {}
  /\ views = <<>>
  /\ stack = <<>>
  /\ delivered = <<>>
  /\ everBuffered = <<>>
  /\ nextId = 1
  /\ nextHandle = 1
  /\ nextViewId = 1
  /\ lastReturn = NoReturn
  /\ lastCreate = NoCreate
  /\ numCreates = 0
  /\ initCalls = 0
  /\ shutdown = "no"
  /\ null_invoked = FALSE
  /\ crashed = FALSE
  /\ lastSizes = NoSizes
  /\ lastOp = NoOp
  /\ placement = <<>>

Init == InitProgram /\ lastPlace = NoPlace

\* ------------------------------------------------------------ actions
\* flutter_create_regular_window -> CreateWindow_(request)
CreateWindow_ ==
  /\ CallerRuns
  /\ shutdown = "no"
  /\ numCreates < MaxCreates
  /\ \E request \in Requests, env \in RequestEnvs :
       CreateHostWindow(SettingsFromRequest(request), env)
  /\ UNCHANGED <<controllerVars, stack, messageVars, initCalls, shutdown>>
  /\ UNCHANGED entityVars

\* flutter_windowing_initialize -> Initialize(request), up to the replay loop
Initialize ==
  /\ TopLevel
  /\ shutdown = "no"
  /\ initCalls < MaxInit
  /\ initCalls' = initCalls + 1
  /\ on_message_' = TRUE
  /\ isolate_' = TRUE
  /\ stack' = Append(stack, InitializeFrame(1))
  /\ UNCHANGED <<pending_messages_, active_windows_, props, shutdown>>
  /\ UNCHANGED <<messageVars, createVars>>
  /\ UNCHANGED entityVars

\* Mutant: a loop over a snapshot steps over every other element.
NextIndex_Skips(idx) == idx + 2

\* The range-based for loops of Initialize and OnEngineShutdown: the
\* position after the current element.
NextIndex(idx) == idx + 1

\* Initialize: one turn of the replay loop, on_message_(&message)
InitializeReplay ==
  /\ ~crashed
  /\ stack # <<>>
  /\ Top.op = "Initialize"
  /\ Top.idx <= Len(pending_messages_)
  /\ Len(stack) < MaxDepth
  /\ LET ms == pending_messages_[Top.idx]
     IN /\ delivered' = Append(delivered, ms.id)
        /\ stack' = Append([stack EXCEPT ![Len(stack)].idx = NextIndex(@)],
                           CallbackFrame(ms, "Initialize"))
  /\ UNCHANGED <<controllerVars, active_windows_, props, everBuffered, nextId,
                 lastReturn, null_invoked, crashed, initCalls, shutdown>>
  /\ UNCHANGED createVars
  /\ UNCHANGED entityVars

\* Mutant: Initialize forgets to clear the buffer.
PendingAfterReplay_NotCleared == pending_messages_

\* pending_messages_.clear()
PendingAfterReplay == <<>>

\* Initialize: the loop is over, the buffer is cleared
InitializeReturn ==
  /\ ~crashed
  /\ stack # <<>>
  /\ Top.op = "Initialize"
  /\ Top.idx > Len(pending_messages_)
  /\ pending_messages_' = PendingAfterReplay
  /\ stack' = Pop
  /\ UNCHANGED <<on_message_, isolate_, active_windows_, props, initCalls, shutdown>>
  /\ UNCHANGED <<messageVars, createVars>>
  /\ UNCHANGED entityVars

\* The callback returns, having set the handled flag and the result slot as
\* it likes; a HandleMessage that called it returns in the same step.
CallbackReturn ==
  /\ ~crashed
  /\ stack # <<>>
  /\ Top.op = "on_message"
  /\ \E handled \in BOOLEAN, result \in CallbackResults :
       LET ms == [Top.ms EXCEPT !.handled = handled, !.result = result]
       IN lastReturn' =
            IF Top.caller = "HandleMessage"
            THEN Returned(ms, Top.ms.view_id # 0, FALSE, TRUE,
                          HandleMessageResult(ms))
            ELSE lastReturn
  /\ stack' = Pop
  /\ UNCHANGED <<controllerVars, active_windows_, props, delivered,
                 everBuffered, nextId, null_invoked, crashed,
                 initCalls, shutdown>>
  /\ UNCHANGED createVars
  /\ UNCHANGED entityVars

\* The message pump (or a call the callback makes) sends a message to the
\* window procedure of a live window.
PumpMessage ==
  /\ CallerRuns
  /\ \E hwnd \in native, message \in PumpMessages, ub \in UBOutcomes :
       /\ ~BeingDestroyed(hwnd)
       /\ \E hasView \in ViewAnswers(hwnd) :
            WndProc(hwnd, message, hasView, ub, stack)
  /\ UNCHANGED <<on_message_, isolate_, initCalls, shutdown>>
  /\ UNCHANGED createVars
  /\ UNCHANGED entityVars

\* DestroyWindow(hwnd) called by the application: WM_DESTROY is sent at once,
\* WM_NCDESTROY when that returns.
DestroyWindow ==
  /\ CallerRuns
  /\ shutdown = "no"
  /\ \E hwnd \in native, ub \in UBOutcomes :
       /\ ~BeingDestroyed(hwnd)
       /\ \E hasView \in ViewAnswers(hwnd) :
            WndProc(hwnd, "WM_DESTROY", hasView, ub,
                    Append(stack, DestroyWindowFrame(hwnd, "WM_NCDESTROY")))
  /\ UNCHANGED <<on_message_, isolate_, initCalls, shutdown>>
  /\ UNCHANGED createVars
  /\ UNCHANGED entityVars

\* DestroyWindow: WM_DESTROY has returned; WM_NCDESTROY is sent and the native
\* window is gone.
DestroyWindowFinish ==
  /\ ~crashed
  /\ stack # <<>>
  /\ Top.op = "DestroyWindow"
  /\ \E ub \in UBOutcomes, hasView \in ViewAnswers(Top.hwnd) :
       WndProc(Top.hwnd, "WM_NCDESTROY", hasView, ub, Pop)
  /\ native' = native \ {Top.hwnd}
  /\ UNCHANGED <<on_message_, isolate_, initCalls, shutdown, views, nextHandle,
                 nextViewId, lastCreate, numCreates>>
  /\ UNCHANGED entityVars

\* OnEngineShutdown up to its second loop: the callback is cleared and the
\* handles are copied out of the registry.
OnEngineShutdown ==
  /\ TopLevel
  /\ shutdown = "no"
  /\ shutdown' = "running"
  /\ on_message_' = FALSE
  /\ stack' = Append(stack, ShutdownFrame(SortedSeq(DOMAIN active_windows_), 1))
  /\ UNCHANGED <<isolate_, pending_messages_, active_windows_, props, initCalls>>
  /\ UNCHANGED <<messageVars, createVars>>
  /\ UNCHANGED entityVars

\* OnEngineShutdown: one turn of the second loop, DestroyWindow(hwnd); the
\* call fails when hwnd names no native window.
ShutdownDestroy ==
  /\ ~crashed
  /\ stack # <<>>
  /\ Top.op = "OnEngineShutdown"
  /\ Top.idx <= Len(Top.handles)
  /\ LET hwnd == Top.handles[Top.idx]
         next == [stack EXCEPT ![Len(stack)].idx = NextIndex(@)]
     IN IF hwnd \in native
        THEN \E ub \in UBOutcomes, hasView \in ViewAnswers(hwnd) :
               WndProc(hwnd, "WM_DESTROY", hasView, ub,
                       Append(next, DestroyWindowFrame(hwnd, "WM_NCDESTROY")))
        ELSE /\ stack' = next
             /\ UNCHANGED <<active_windows_, props, pending_messages_>>
             /\ UNCHANGED messageVars
  /\ UNCHANGED <<on_message_, isolate_, initCalls, shutdown>>
  /\ UNCHANGED createVars
  /\ UNCHANGED entityVars

\* OnEngineShutdown returns.
ShutdownReturn ==
  /\ ~crashed
  /\ stack # <<>>
  /\ Top.op = "OnEngineShutdown"
  /\ Top.idx > Len(Top.handles)
  /\ shutdown' = "done"
  /\ stack' = Pop
  /\ UNCHANGED <<controllerVars, active_windows_, props, initCalls>>
  /\ UNCHANGED <<messageVars, createVars>>
  /\ UNCHANGED entityVars

Next ==
  \/ CreateWindow_
  \/ Initialize
  \/ InitializeReplay
  \/ InitializeReturn
  \/ CallbackReturn
  \/ PumpMessage
  \/ DestroyWindow
  \/ DestroyWindowFinish
  \/ OnEngineShutdown
  \/ ShutdownDestroy
  \/ ShutdownReturn

Spec == Init /\ [][Next]_vars

\* ------------------------------------------------ the constructor on its own
\* Every WindowCreationSettings value the constructor can be given: both
\* archetypes, with and without an owner, with and without a positioner.
AllSettings ==
  [archetype : Archetypes,
   parent_view_id : {0} \cup ParentViewIds,
   positioner : BOOLEAN,
   size : {Size(1, 1)},
   min_size : OptMinSizes,
   max_size : OptMaxSizes,
   state : {None, Some("kMaximized")}]

\* A host window is constructed from arbitrary settings and registered as
\* CreateWindow_ registers it.
ConstructWindow ==
  /\ TopLevel
  /\ numCreates < MaxConstructions
  /\ \E settings \in AllSettings, env \in Envs : CreateHostWindow(settings, env)
  /\ UNCHANGED <<controllerVars, stack, messageVars, initCalls, shutdown>>
  /\ UNCHANGED entityVars

NextCtor == ConstructWindow

SpecCtor == Init /\ [][NextCtor]_vars

\* ------------------------------------------------ the size bounds on their own
\* The bounds the size validation is exercised with: none, finite, and with
\* an infinite component, below and above one another.
SizedMinSizes == {None, Some(Size(1, 2)), Some(Size(Inf, 1))}

SizedMaxSizes == {None, Some(Size(1, 1)), Some(Size(2, 2)), Some(Size(Inf, 1))}

\* Settings that pass the preconditions: a Regular window, or a Popup of a
\* registered window with a positioner.
SizedSettings ==
  {t \in [archetype : Archetypes,
          parent_view_id : {0} \cup ParentViewIds,
          positioner : BOOLEAN,
          size : {Size(1, 1)},
          min_size : SizedMinSizes,
          max_size : SizedMaxSizes,
          state : {None}] :
     IF t.archetype = "kRegular"
     THEN t.parent_view_id = 0 /\ ~t.positioner
     ELSE t.parent_view_id # 0 /\ t.positioner}

\* The engine creates the view and the class is registered; CreateWindowEx
\* and the scale factor vary.
SizedEnvs == {e \in Envs : e.view /\ e.class}

ConstructSized ==
  /\ TopLevel
  /\ numCreates < MaxConstructions
  /\ \E settings \in SizedSettings, env \in SizedEnvs :
       /\ CreateHostWindow(settings, env)
       /\ lastSizes' = [n |-> numCreates + 1,
                        min_size |-> settings.min_size,
                        max_size |-> settings.max_size,
                        scale |-> env.scale]
  /\ UNCHANGED <<controllerVars, stack, messageVars, initCalls, shutdown>>
  /\ UNCHANGED <<lastOp, placement, lastPlace>>

NextSize == ConstructSized

SpecSize == Init /\ [][NextSize]_vars

\* ------------------------------------- the host window's own operations
\* Settings that pass the preconditions, without size bounds, with the
\* initial states given.
SettingsWithStates(states) ==
  {t \in [archetype : Archetypes,
          parent_view_id : {0} \cup ParentViewIds,
          positioner : BOOLEAN,
          size : {Size(1, 1)},
          min_size : {None},
          max_size : {None},
          state : states] :
     IF t.archetype = "kRegular"
     THEN t.parent_view_id = 0 /\ ~t.positioner
     ELSE t.parent_view_id # 0 /\ t.positioner /\ t.state = None}

WindowSettings == SettingsWithStates({None})

\* The constructions that succeed (the failing ones are those of SpecCtor).
WindowEnvs ==
  {e \in Envs : e.view /\ e.class /\ e.create = "hwnd" /\ e.scale = 1}

\* The windows whose messages WndProc passes on: the native windows that
\* carry the instance property of a registered entity.
LiveWindows ==
  {h \in DOMAIN active_windows_ : h \in native /\ GetThisFromHandle(h)}

\* GetWindow(hwnd, GW_OWNER) for the window of entity h.
GetWindowOwner(reg, h) == IF h \in native THEN reg[h].gw_owner ELSE 0

\* window->GetOwnerWindow(): the entity of the owner window, 0 for none.
GetOwnerWindow(reg, h) ==
  LET o == GetWindowOwner(reg, h)
  IN IF o # 0 /\ GetThisFromHandle(o) /\ o \in DOMAIN reg THEN o ELSE 0

\* lifecycle_manager()->WindowProc(...): whether the engine's lifecycle
\* manager answers the message itself, before the host window looks at it.
LifecycleManagerHandles(message) == FALSE

\* view_controller_ is non-null: the entity has its view.
HasView(w) == w.view_id # 0

\* HandleMessage after the switch: 0 without a view, DefWindowProc with one.
DefaultAnswer(w) == IF ~HasView(w) THEN "0" ELSE "DefWindowProc"

Op(op, hwnd, wparam, lparam, ret, count, closed, show_cmd) ==
  [seq |-> 1 - lastOp.seq, op |-> op, hwnd |-> hwnd, wparam |-> wparam,
   lparam |-> lparam, ret |-> ret, count |-> count, closed |-> closed,
   show_cmd |-> show_cmd, calls |-> {}, info |-> NoInfo, size |-> None]

\* The record of an operation that made the Win32 calls given, each a pair
\* of the function's name and the handle it was given.
OpCalls(o, calls) == [o EXCEPT !.calls = calls]

NewHostWindow ==
  /\ TopLevel
  /\ numCreates < MaxWindows
  /\ \E settings \in WindowSettings, env \in WindowEnvs :
       CreateHostWindow(settings, env)
  /\ UNCHANGED <<controllerVars, stack, messageVars, initCalls, shutdown>>
  /\ UNCHANGED entityVars

\* CloseOwnedPopups, "std::set<FlutterHostWindow*> popups": the Popup
\* members of owned_windows_.
OwnedPopups(reg, h) ==
  {p \in reg[h].owned_windows_ :
     p \in DOMAIN reg /\ reg[p].archetype_ = "kPopup"}

\* CloseOwnedPopups: the popups that are sent WM_CLOSE, those whose owner
\* window has an entity.
PopupsClosed(reg, h) == {p \in OwnedPopups(reg, h) : GetOwnerWindow(reg, p) # 0}

\* CloseOwnedPopups: the registry when it returns.  The popups leave
\* owned_windows_; the owners' enable_redraw_non_client_as_inactive_ is
\* cleared around PostMessage and set again; num_owned_popups_ is not
\* written.
RegistryAfterClose(reg, h) ==
  IF reg[h].num_owned_popups_ = 0 THEN reg
  ELSE [x \in DOMAIN reg |->
          LET a == IF x = h
                   THEN [reg[x] EXCEPT !.owned_windows_ = @ \ OwnedPopups(reg, h)]
                   ELSE reg[x]
          IN IF \E p \in PopupsClosed(reg, h) : GetOwnerWindow(reg, p) = x
             THEN [a EXCEPT !.enable_redraw_non_client_as_inactive_ = TRUE]
             ELSE a]

\* Mutant: the early return answers 1.
CloseOwnedPopupsReturn_One(before, after) ==
  IF before.num_owned_popups_ = 0 THEN 1
  ELSE before.num_owned_popups_ - after.num_owned_popups_

\* CloseOwnedPopups: the value returned, 0 at the early return and
\* previous_num_owned_popups - num_owned_popups_ at the end.
CloseOwnedPopupsReturn(before, after) ==
  IF before.num_owned_popups_ = 0 THEN 0
  ELSE before.num_owned_popups_ - after.num_owned_popups_

\* CloseOwnedPopups: the owners repainted with SetWindowPos, those found
\* with num_owned_popups_ == 0 once WM_CLOSE was posted to a popup of theirs.
OwnersRepainted(reg, h) ==
  {o \in {GetOwnerWindow(reg, p) : p \in PopupsClosed(reg, h)} :
     reg[o].num_owned_popups_ = 0}

\* FlutterHostWindow::CloseOwnedPopups() called on a registered entity.
CloseOwnedPopups ==
  /\ TopLevel
  /\ \E h \in DOMAIN active_windows_ :
       LET after == RegistryAfterClose(active_windows_, h)
           returnsEarly == active_windows_[h].num_owned_popups_ = 0
           closed == IF returnsEarly THEN {}
                     ELSE PopupsClosed(active_windows_, h)
           repainted == IF returnsEarly THEN {}
                        ELSE OwnersRepainted(active_windows_, h)
       IN /\ active_windows_' = after
          /\ lastOp' = OpCalls(Op("CloseOwnedPopups", h, FALSE, 0, "none",
                                  CloseOwnedPopupsReturn(active_windows_[h], after[h]),
                                  closed, "none"),
                               {<<"PostMessage", p>> : p \in closed}
                                 \cup {<<"SetWindowPos", o>> : o \in repainted})
  /\ UNCHANGED <<controllerVars, props, stack, messageVars, initCalls, shutdown>>
  /\ UNCHANGED <<createVars, lastSizes, lastPlace, placement>>

\* Mutant: the popup stays in the owner's owned_windows_.
OwnerAfterPopupDestroy_KeepsLink(owner_window, h) ==
  [owner_window EXCEPT !.num_owned_popups_ = @ - 1]

\* HandleMessage, WM_DESTROY of a Popup: the owner entity afterwards.
OwnerAfterPopupDestroy(owner_window, h) ==
  [owner_window EXCEPT !.owned_windows_ = @ \ {h},
                       !.num_owned_popups_ = @ - 1]

\* Mutant: WM_DESTROY never updates the owner.
UnlinksFromOwner_Never(reg, h) == FALSE

\* HandleMessage, WM_DESTROY: whether the popup reaches the owner update.
UnlinksFromOwner(reg, h) ==
  /\ reg[h].window_handle_ # 0
  /\ reg[h].archetype_ = "kPopup"
  /\ GetOwnerWindow(reg, h) # 0

\* HandleMessage, WM_DESTROY: FML_CHECK(owner_window->num_owned_popups_ > 0)
\* fails and the process aborts.
PopupCountCheckFails(reg, h) ==
  UnlinksFromOwner(reg, h) /\ reg[GetOwnerWindow(reg, h)].num_owned_popups_ = 0

\* HandleMessage, WM_DESTROY: the registry afterwards.
RegistryAfterDestroy(reg, h) ==
  IF UnlinksFromOwner(reg, h) /\ ~PopupCountCheckFails(reg, h)
  THEN [reg EXCEPT ![GetOwnerWindow(reg, h)] = OwnerAfterPopupDestroy(@, h)]
  ELSE reg

\* HandleMessage, WM_DESTROY of a Popup: whether
\* SetFocus(owner_window->child_content_) is called.
RestoresFocus(reg, h) ==
  /\ UnlinksFromOwner(reg, h)
  /\ ~PopupCountCheckFails(reg, h)
  /\ reg[GetOwnerWindow(reg, h)].child_content_

\* A window is destroyed, first step: Win32 has destroyed the windows it
\* owns and sends WM_DESTROY, which the host window handles.
HostWindowDestroy ==
  /\ TopLevel
  /\ \E h \in LiveWindows :
       /\ \A p \in LiveWindows : GetWindowOwner(active_windows_, p) # h
       /\ ~(HasView(active_windows_[h]) /\ LifecycleManagerHandles("WM_DESTROY"))
       /\ active_windows_' = RegistryAfterDestroy(active_windows_, h)
       /\ crashed' = PopupCountCheckFails(active_windows_, h)
       /\ stack' = Append(stack, DestroyWindowFrame(h, "WM_NCDESTROY"))
       /\ lastOp' = OpCalls(Op("WM_DESTROY", h, FALSE, 0,
                                  DefaultAnswer(active_windows_[h]), 0, {}, "none"),
                               IF RestoresFocus(active_windows_, h)
                               THEN {<<"SetFocus", GetOwnerWindow(active_windows_, h)>>}
                               ELSE {})
  /\ UNCHANGED <<controllerVars, props, initCalls, shutdown>>
  /\ UNCHANGED <<delivered, everBuffered, nextId, lastReturn, null_invoked>>
  /\ UNCHANGED <<createVars, lastSizes, lastPlace, placement>>

\* A window is destroyed, second step: WM_NCDESTROY makes the controller
\* erase the entity, whose destructor removes the instance property, and
\* the native window is gone.
HostWindowNcDestroy ==
  /\ ~crashed
  /\ stack # <<>>
  /\ Top.op = "DestroyWindow"
  /\ Top.message = "WM_NCDESTROY"
  /\ shutdown = "no"
  /\ active_windows_' = RegistryAfter(Top.hwnd, "WM_NCDESTROY")
  /\ props' = props \ {Top.hwnd}
  /\ native' = native \ {Top.hwnd}
  /\ stack' = Pop
  /\ UNCHANGED <<controllerVars, messageVars, initCalls, shutdown>>
  /\ placement' = Erase(placement, Top.hwnd)
  /\ UNCHANGED <<views, nextHandle, nextViewId, lastCreate, numCreates>>
  /\ UNCHANGED <<lastSizes, lastPlace, lastOp>>

\* Mutant: the popups owned are not looked at.
NcActivateForced_IgnoresPopups(w, wparam) ==
  /\ ~wparam
  /\ w.archetype_ # "kPopup"
  /\ ~w.enable_redraw_non_client_as_inactive_

\* HandleMessage, WM_NCACTIVATE: whether TRUE is returned in place of the
\* default answer.
NcActivateForced(w, wparam) ==
  /\ ~wparam
  /\ w.archetype_ # "kPopup"
  /\ (~w.enable_redraw_non_client_as_inactive_ \/ w.num_owned_popups_ > 0)

\* HandleMessage(hwnd, WM_NCACTIVATE, wparam, lparam)
HostWindowNcActivate ==
  /\ TopLevel
  /\ \E h \in LiveWindows, wparam \in BOOLEAN :
       /\ ~(HasView(active_windows_[h]) /\ LifecycleManagerHandles("WM_NCACTIVATE"))
       /\ lastOp' = Op("WM_NCACTIVATE", h, wparam, 0,
                       IF NcActivateForced(active_windows_[h], wparam)
                       THEN "TRUE" ELSE DefaultAnswer(active_windows_[h]),
                       0, {}, "none")
  /\ UNCHANGED <<controllerVars, active_windows_, props, stack, messageVars,
                 initCalls, shutdown>>
  /\ UNCHANGED <<createVars, lastSizes, lastPlace, placement>>

\* lparam of WM_SHOWWINDOW: 0 for a ShowWindow call, SW_PARENTCLOSING (1)
\* for a notification caused by the owner.
ShowWindowStatus == {0, 1}

\* Mutant: every WM_SHOWWINDOW that shows the window applies the command.
AppliesPendingShow_IgnoresLatch(w, wparam, lparam) == wparam /\ lparam = 0

\* HandleMessage, WM_SHOWWINDOW: wparam == TRUE && lparam == 0 && pending_show_
AppliesPendingShow(w, wparam, lparam) ==
  wparam /\ lparam = 0 /\ w.pending_show_

\* HandleMessage, WM_SHOWWINDOW: show_cmd
ShowCommand(w) ==
  IF w.archetype_ = "kRegular"
  THEN CASE w.state_ = "kRestored" -> "SW_SHOW"
         [] w.state_ = "kMaximized" -> "SW_SHOWMAXIMIZED"
         [] w.state_ = "kMinimized" -> "SW_SHOWMINIMIZED"
         [] OTHER -> "FML_CHECK"
  ELSE "SW_SHOWNORMAL"

\* IsIconic(hwnd) / IsZoomed(hwnd): the show state of the native window.
ShowState(hwnd) ==
  IF hwnd \in DOMAIN placement THEN placement[hwnd] ELSE "kRestored"

\* The show state a window has once a show command was applied to it; SW_SHOW
\* leaves the state the window is in.
ShowStateAfter(show_cmd, current) ==
  CASE show_cmd \in {"SW_SHOWMAXIMIZED", "SW_MAXIMIZE"} -> "kMaximized"
    [] show_cmd \in {"SW_SHOWMINIMIZED", "SW_MINIMIZE"} -> "kMinimized"
    [] show_cmd \in {"SW_SHOWNORMAL", "SW_RESTORE"} -> "kRestored"
    [] OTHER -> current

\* HandleMessage(hwnd, WM_SHOWWINDOW, wparam, lparam); FML_CHECK aborts when
\* a Regular entity has no state_.
HostWindowShowWindow ==
  /\ TopLevel
  /\ \E h \in LiveWindows, wparam \in BOOLEAN, lparam \in ShowWindowStatus :
       LET w == active_windows_[h]
           applies == AppliesPendingShow(w, wparam, lparam)
           aborts == applies /\ ShowCommand(w) = "FML_CHECK"
       IN /\ ~(HasView(w) /\ LifecycleManagerHandles("WM_SHOWWINDOW"))
          /\ active_windows_' =
               IF applies
               THEN [active_windows_ EXCEPT ![h].pending_show_ = FALSE]
               ELSE active_windows_
          /\ crashed' = aborts
          /\ placement' =
               IF applies /\ ~aborts
               THEN Put(placement, h, ShowStateAfter(ShowCommand(w), ShowState(h)))
               ELSE placement
          /\ lastOp' = OpCalls(Op("WM_SHOWWINDOW", h, wparam, lparam, "0", 0, {},
                                  IF applies THEN ShowCommand(w) ELSE "none"),
                               IF applies /\ ~aborts
                               THEN {<<"SetWindowPlacement", h>>} ELSE {})
  /\ UNCHANGED <<controllerVars, props, stack, initCalls, shutdown>>
  /\ UNCHANGED <<delivered, everBuffered, nextId, lastReturn, null_invoked>>
  /\ UNCHANGED <<createVars, lastSizes, lastPlace>>

NextWin ==
  \/ NewHostWindow
  \/ CloseOwnedPopups
  \/ HostWindowDestroy
  \/ HostWindowNcDestroy
  \/ HostWindowNcActivate

SpecWin == Init /\ [][NextWin]_vars

\* ------------------------------------------------ the first show on its own
\* Windows of every initial state are constructed, shown, hidden and
\* destroyed.
ShownSettings ==
  SettingsWithStates({None, Some("kRestored"), Some("kMaximized"),
                      Some("kMinimized")})

NewShownWindow ==
  /\ TopLevel
  /\ numCreates < MaxConstructions
  /\ \E settings \in ShownSettings, env \in WindowEnvs :
       CreateHostWindow(settings, env)
  /\ UNCHANGED <<controllerVars, stack, messageVars, initCalls, shutdown>>
  /\ UNCHANGED entityVars

NextShow ==
  \/ NewShownWindow
  \/ HostWindowShowWindow
  \/ HostWindowDestroy
  \/ HostWindowNcDestroy

SpecShow == Init /\ [][NextShow]_vars

\* ------------------------------------------------ the window state on its own
\* FlutterHostWindow::GetState()
GetState(w) == w.state_

\* flutter_get_window_state(hwnd)
flutter_get_window_state(hwnd) == ShowState(hwnd)

\* SetState / flutter_set_window_state: the show command of a WindowState.
StateShowCommand(state) ==
  CASE state = "kRestored" -> "SW_RESTORE"
    [] state = "kMaximized" -> "SW_MAXIMIZE"
    [] state = "kMinimized" -> "SW_MINIMIZE"

\* HandleMessage, WM_SIZE: the Win32 calls made for window h of entity w.
SizeCalls(w, h) == IF w.child_content_ THEN {<<"MoveWindow", h>>} ELSE {}

\* SetState: state_ = state
StateAfterSetState(w, state) == state

\* FlutterHostWindow::SetState(state) on a window that has been shown:
\* SetWindowPlacement applies the show command (the WM_SIZE it sends moves
\* the child content), then state_ is written.
SetState ==
  /\ TopLevel
  /\ \E h \in LiveWindows, state \in WindowStates :
       LET w == active_windows_[h]
           show_cmd == StateShowCommand(state)
       IN /\ ~w.pending_show_
          /\ placement' = Put(placement, h, ShowStateAfter(show_cmd, ShowState(h)))
          /\ active_windows_' =
               [active_windows_ EXCEPT ![h].state_ = StateAfterSetState(w, state)]
          /\ lastOp' = OpCalls(Op("SetState", h, FALSE, 0, "none", 0, {}, show_cmd),
                               {<<"SetWindowPlacement", h>>} \cup SizeCalls(w, h))
  /\ UNCHANGED <<controllerVars, props, stack, messageVars, initCalls, shutdown>>
  /\ UNCHANGED <<createVars, lastSizes, lastPlace>>

\* flutter_set_window_state(hwnd, state) on a window that has been shown:
\* ShowWindow applies the show command; the entity sees the WM_SIZE that
\* follows and nothing else.
flutter_set_window_state ==
  /\ TopLevel
  /\ \E h \in LiveWindows, state \in WindowStates :
       LET w == active_windows_[h]
           show_cmd == StateShowCommand(state)
       IN /\ ~w.pending_show_
          /\ placement' = Put(placement, h, ShowStateAfter(show_cmd, ShowState(h)))
          /\ lastOp' = OpCalls(Op("flutter_set_window_state", h, FALSE, 0, "none",
                                  0, {}, show_cmd),
                               {<<"ShowWindow", h>>} \cup SizeCalls(w, h))
  /\ UNCHANGED <<controllerVars, active_windows_, props, stack, messageVars,
                 initCalls, shutdown>>
  /\ UNCHANGED <<createVars, lastSizes, lastPlace>>

\* HandleMessage(hwnd, WM_SIZE, wparam, lparam): the window was resized,
\* minimized, maximized or restored by the user or the system, to the show
\* state drawn here; the handler moves the child content and returns 0.
HostWindowSize ==
  /\ TopLevel
  /\ \E h \in LiveWindows, state \in WindowStates :
       LET w == active_windows_[h]
       IN /\ ~(HasView(w) /\ LifecycleManagerHandles("WM_SIZE"))
          /\ w.pending_show_ => state = ShowState(h)
          /\ placement' = Put(placement, h, state)
          /\ lastOp' = OpCalls(Op("WM_SIZE", h, FALSE, 0, "0", 0, {}, "none"),
                               SizeCalls(w, h))
  /\ UNCHANGED <<controllerVars, active_windows_, props, stack, messageVars,
                 initCalls, shutdown>>
  /\ UNCHANGED <<createVars, lastSizes, lastPlace>>

\* Regular windows of every initial state.
StateSettings == {t \in ShownSettings : t.archetype = "kRegular"}

NewStateWindow ==
  /\ TopLevel
  /\ numCreates < MaxConstructions
  /\ \E settings \in StateSettings, env \in WindowEnvs :
       CreateHostWindow(settings, env)
  /\ UNCHANGED <<controllerVars, stack, messageVars, initCalls, shutdown>>
  /\ UNCHANGED entityVars

NextState ==
  \/ NewStateWindow
  \/ HostWindowShowWindow
  \/ SetState
  \/ flutter_set_window_state
  \/ HostWindowSize

SpecState == Init /\ [][NextState]_vars

\* ------------------------------------------ CloseOwnedPopups step by step
\* CloseOwnedPopups on entity hwnd, in its last loop: message is "none"
\* before owner->enable_redraw_non_client_as_inactive_ = false and
\* "PostMessage" between that statement and the call of PostMessage.
CloseOwnedPopupsFrame(hwnd, popups, count) ==
  [Frame("CloseOwnedPopups", hwnd, "none", NoMessage, 1, popups, "none")
     EXCEPT !.count = count]

\* CloseOwnedPopups up to its last loop: the early return, or the popups are
\* collected and erased from owned_windows_.
CloseOwnedPopupsBegin ==
  /\ TopLevel
  /\ \E h \in DOMAIN active_windows_ :
       LET w == active_windows_[h]
       IN IF w.num_owned_popups_ = 0
          THEN /\ lastOp' = Op("CloseOwnedPopups", h, FALSE, 0, "none",
                               CloseOwnedPopupsReturn(w, w), {}, "none")
               /\ UNCHANGED <<active_windows_, stack>>
          ELSE /\ active_windows_' =
                    [active_windows_ EXCEPT
                       ![h].owned_windows_ = @ \ OwnedPopups(active_windows_, h)]
               /\ stack' = Append(stack,
                      CloseOwnedPopupsFrame(h, SortedSeq(OwnedPopups(active_windows_, h)),
                                            w.num_owned_popups_))
               /\ UNCHANGED lastOp
  /\ UNCHANGED <<controllerVars, props, messageVars, initCalls, shutdown>>
  /\ UNCHANGED <<createVars, lastSizes, lastPlace, placement>>

\* CloseOwnedPopups, one turn of the last loop up to PostMessage: the owner
\* of the popup is looked up and its flag is cleared; a popup without owner
\* entity is passed over.
CloseOwnedPopupsSuppress ==
  /\ ~crashed
  /\ stack # <<>>
  /\ Top.op = "CloseOwnedPopups"
  /\ Top.message = "none"
  /\ Top.idx <= Len(Top.handles)
  /\ LET owner == GetOwnerWindow(active_windows_, Top.handles[Top.idx])
     IN IF owner # 0
        THEN /\ active_windows_' =
                  [active_windows_ EXCEPT
                     ![owner].enable_redraw_non_client_as_inactive_ = FALSE]
             /\ stack' = [stack EXCEPT ![Len(stack)].message = "PostMessage"]
        ELSE /\ stack' = [stack EXCEPT ![Len(stack)].idx = NextIndex(@)]
             /\ UNCHANGED active_windows_
  /\ UNCHANGED <<controllerVars, props, messageVars, initCalls, shutdown>>
  /\ UNCHANGED <<createVars, entityVars>>

\* Mutant: the flag is left cleared after PostMessage.
FlagAfterPost_StaysCleared == FALSE

\* owner->enable_redraw_non_client_as_inactive_ = true
FlagAfterPost == TRUE

\* CloseOwnedPopups, the rest of the turn: WM_CLOSE is posted to the popup,
\* the flag is set again, and the owner is repainted if it has no popups.
CloseOwnedPopupsPost ==
  /\ ~crashed
  /\ stack # <<>>
  /\ Top.op = "CloseOwnedPopups"
  /\ Top.message = "PostMessage"
  /\ LET popup == Top.handles[Top.idx]
         owner == GetOwnerWindow(active_windows_, popup)
     IN /\ active_windows_' =
             [active_windows_ EXCEPT
                ![owner].enable_redraw_non_client_as_inactive_ = FlagAfterPost]
        /\ lastOp' = OpCalls(Op("PostMessage", popup, FALSE, 0, "none", 0,
                                {popup}, "none"),
                             {<<"PostMessage", popup>>}
                               \cup IF active_windows_[owner].num_owned_popups_ = 0
                                    THEN {<<"SetWindowPos", owner>>} ELSE {})
  /\ stack' = [stack EXCEPT ![Len(stack)].message = "none",
                            ![Len(stack)].idx = NextIndex(@)]
  /\ UNCHANGED <<controllerVars, props, messageVars, initCalls, shutdown>>
  /\ UNCHANGED <<createVars, lastSizes, lastPlace, placement>>

\* CloseOwnedPopups returns previous_num_owned_popups - num_owned_popups_.
CloseOwnedPopupsEnd ==
  /\ ~crashed
  /\ stack # <<>>
  /\ Top.op = "CloseOwnedPopups"
  /\ Top.message = "none"
  /\ Top.idx > Len(Top.handles)
  /\ lastOp' = Op("CloseOwnedPopups", Top.hwnd, FALSE, 0, "none",
                  Top.count - active_windows_[Top.hwnd].num_owned_popups_,
                  {Top.handles[i] : i \in
                     {j \in 1..Len(Top.handles) :
                        GetOwnerWindow(active_windows_, Top.handles[j]) # 0}},
                  "none")
  /\ stack' = Pop
  /\ UNCHANGED <<controllerVars, active_windows_, props, messageVars,
                 initCalls, shutdown>>
  /\ UNCHANGED <<createVars, lastSizes, lastPlace, placement>>

NextClose ==
  \/ NewHostWindow
  \/ CloseOwnedPopupsBegin
  \/ CloseOwnedPopupsSuppress
  \/ CloseOwnedPopupsPost
  \/ CloseOwnedPopupsEnd
  \/ HostWindowDestroy
  \/ HostWindowNcDestroy
  \/ HostWindowNcActivate

SpecClose == Init /\ [][NextClose]_vars

\* ------------------------------------------- the placement solver on its own
\* PlaceWindow(positioner, frame_size, anchor_rect, owner_rect, output_rect)
\* is computed per axis: an axis of a rectangle is the interval from lo to
\* hi, an axis of the frame its length.  A gravity names the low edge, the
\* centre or the high edge of an axis.
Gravities == {"start", "center", "end"}

Interval(lo, hi) == [lo |-> lo, hi |-> hi]

\* The gravity mirrored across the anchor.
Mirror(gravity) ==
  CASE gravity = "start" -> "end"
    [] gravity = "end" -> "start"
    [] OTHER -> gravity

\* The coordinate of the edge of the anchor rectangle that a gravity selects.
AnchorPoint(gravity, anchor_rect) ==
  CASE gravity = "start" -> anchor_rect.lo
    [] gravity = "center" -> (anchor_rect.lo + anchor_rect.hi) \div 2
    [] gravity = "end" -> anchor_rect.hi

\* The distance from the low edge of the frame to the edge of the frame
\* that a gravity selects.
FrameEdge(gravity, frame) ==
  CASE gravity = "start" -> 0
    [] gravity = "center" -> frame \div 2
    [] gravity = "end" -> frame

\* Base placement: the selected edge of the frame touches the selected edge
\* of the anchor rectangle, then the offset is applied.
BasePlacement(a) ==
  AnchorPoint(a.anchor, a.anchor_rect) - FrameEdge(a.popup, a.frame) + a.offset

\* Flip: the base placement with the gravity pair (and with it the offset)
\* mirrored across the anchor.
FlippedPlacement(a) ==
  BasePlacement([a EXCEPT !.anchor = Mirror(@), !.popup = Mirror(@),
                          !.offset = 0 - @])

\* No overflow: the frame at pos lies inside the output rectangle.
Fits(pos, length, output) == output.lo <= pos /\ pos + length <= output.hi

\* Mutant: a flip is never found to resolve the overflow.
FlipResolves_Never(a, output) == FALSE

\* Flip applies: the base placement overflows and the flipped one does not.
FlipResolves(a, output) ==
  /\ ~Fits(BasePlacement(a), a.frame, output)
  /\ Fits(FlippedPlacement(a), a.frame, output)

\* Mutant: slide leaves the frame where it is.
Slid_NotMoved(pos, length, output) == pos

\* Slide: the least translation that brings the frame inside.
Slid(pos, length, output) == clamp(pos, output.lo, output.hi - length)

\* Resize: the overflowing edges are cut back to the output rectangle.
Resized(pos, length, output) ==
  LET lo == IF pos < output.lo THEN output.lo ELSE pos
      hi == IF pos + length > output.hi THEN output.hi ELSE pos + length
  IN [pos |-> lo, length |-> hi - lo]

\* Constraint adjustment of one axis: flip, then slide, then resize; a
\* frame that no adjustment brings inside is left clipped.
PlaceAxis(a, output) ==
  LET base == BasePlacement(a)
  IN IF Fits(base, a.frame, output) THEN [pos |-> base, length |-> a.frame]
     ELSE IF FlipResolves(a, output)
       THEN [pos |-> FlippedPlacement(a), length |-> a.frame]
     ELSE IF a.frame <= output.hi - output.lo
       THEN [pos |-> Slid(base, a.frame, output), length |-> a.frame]
     ELSE IF base < output.hi /\ base + a.frame > output.lo
       THEN Resized(base, a.frame, output)
     ELSE [pos |-> base, length |-> a.frame]

\* The rectangle PlaceWindow returns.
Place(x, y, output_rect) ==
  LET px == PlaceAxis(x, output_rect.x)
      py == PlaceAxis(y, output_rect.y)
  IN [left |-> px.pos, top |-> py.pos, width |-> px.length,
      height |-> py.length]

\* The work area of the display the anchor rectangle is on.
OutputRect == [x |-> Interval(0, 10), y |-> Interval(0, 10)]

\* One axis of the arguments: every gravity pair; no offset or one; a frame
\* much smaller, a little smaller or larger than the output rectangle; an
\* anchor rectangle in the middle, at either edge, or sticking out of the
\* output rectangle.
AxisArguments ==
  [anchor : Gravities, popup : Gravities, offset : {0, 2}, frame : {2, 8, 12},
   anchor_rect : {Interval(4, 6), Interval(0, 2), Interval(8, 10),
                  Interval(8, 12)}]

\* The arguments of one call are drawn.
InitPlace ==
  /\ InitProgram
  /\ lastPlace \in {[NoPlace EXCEPT !.x = x, !.y = y] :
                       x \in AxisArguments, y \in AxisArguments}

\* The constructor of a Popup calls PlaceWindow with the arguments drawn.
PlaceWindow ==
  /\ TopLevel
  /\ lastPlace.n = 0
  /\ lastPlace' = [lastPlace EXCEPT
                     !.n = 1,
                     !.rect = Place(lastPlace.x, lastPlace.y, OutputRect)]
  /\ UNCHANGED <<controllerVars, active_windows_, props, stack, messageVars,
                 initCalls, shutdown>>
  /\ UNCHANGED <<createVars, lastSizes, lastOp, placement>>

NextPlace == PlaceWindow

SpecPlace == InitPlace /\ [][NextPlace]_vars

\* ------------------------------------- every message category on its own
\* Sizes are counted in half pixels, so that a physical size (a double) can
\* fall between two pixels; a LONG or an int is a whole number of pixels.
Pixels(n) == 2 * n

\* Conversion of a double to LONG: the fraction is dropped, towards zero.
ToLong(x) == IF x >= 0 THEN 2 * (x \div 2) ELSE 0 - 2 * ((0 - x) \div 2)

\* ClampToVirtualScreen(size), screen being what GetSystemMetrics answers
\* for SM_CXVIRTUALSCREEN and SM_CYVIRTUALSCREEN.
ClampToVirtualScreen(size, screen) ==
  Size(clamp(size.w, 0, screen.w), clamp(size.h, 0, screen.h))

\* Mutant: the track size is reported without the clamp.
TrackSize_Unclamped(stored, non_client, screen) ==
  IF stored = None THEN None
  ELSE Some(Size(ToLong(stored[1].w + non_client.w),
                 ToLong(stored[1].h + non_client.h)))

\* HandleMessage, WM_GETMINMAXINFO: the track size written for a stored
\* bound, None when the bound is absent and the field is left alone.
TrackSize(stored, non_client, screen) ==
  IF stored = None THEN None
  ELSE LET c == ClampToVirtualScreen(Size(stored[1].w + non_client.w,
                                          stored[1].h + non_client.h), screen)
       IN Some(Size(ToLong(c.w), ToLong(c.h)))

\* Window rectangle minus client rectangle, per component.
NonClientMargins == {Size(0, 0), Size(Pixels(1), Pixels(2))}

\* The extent of the virtual screen.
VirtualScreens == {Size(Pixels(2), Pixels(3)), Size(Pixels(4), Pixels(4))}

\* HandleMessage(hwnd, WM_GETMINMAXINFO, wparam, lparam)
HostWindowGetMinMaxInfo ==
  /\ TopLevel
  /\ \E h \in LiveWindows, non_client \in NonClientMargins,
        screen \in VirtualScreens :
       LET w == active_windows_[h]
       IN /\ ~(HasView(w) /\ LifecycleManagerHandles("WM_GETMINMAXINFO"))
          /\ lastOp' =
               [Op("WM_GETMINMAXINFO", h, FALSE, 0, "0", 0, {}, "none")
                  EXCEPT !.info = [min |-> TrackSize(w.min_size_, non_client, screen),
                                   max |-> TrackSize(w.max_size_, non_client, screen),
                                   non_client |-> non_client,
                                   screen |-> screen]]
  /\ UNCHANGED <<controllerVars, active_windows_, props, stack, messageVars,
                 initCalls, shutdown>>
  /\ UNCHANGED <<createVars, lastSizes, lastPlace, placement>>

\* Logical bounds for the size-constraint query: a minimum with a negative
\* component, bounds that fall between two pixels, a maximum beyond the
\* virtual screen, and a maximum below one of the minima.
MinMaxSettings ==
  [archetype : {"kRegular"},
   parent_view_id : {0},
   positioner : {FALSE},
   size : {Size(1, 1)},
   min_size : {None, Some(Size(0 - 3, 1)), Some(Size(1, 2))},
   max_size : {None, Some(Size(1, 1)), Some(Size(3, 5)), Some(Size(9, 9))},
   state : {None}]

NewBoundedWindow ==
  /\ TopLevel
  /\ numCreates < MaxConstructions
  /\ \E settings \in MinMaxSettings, env \in WindowEnvs :
       CreateHostWindow(settings, env)
  /\ UNCHANGED <<controllerVars, stack, messageVars, initCalls, shutdown>>
  /\ UNCHANGED entityVars

NextMinMax ==
  \/ NewBoundedWindow
  \/ HostWindowGetMinMaxInfo

SpecMinMax == Init /\ [][NextMinMax]_vars

\* HandleMessage(hwnd, WM_DPICHANGED, wparam, lparam): the window is moved
\* to the rectangle suggested.
HostWindowDpiChanged ==
  /\ TopLevel
  /\ \E h \in LiveWindows :
       /\ ~(HasView(active_windows_[h]) /\ LifecycleManagerHandles("WM_DPICHANGED"))
       /\ lastOp' = OpCalls(Op("WM_DPICHANGED", h, FALSE, 0, "0", 0, {}, "none"),
                            {<<"SetWindowPos", h>>})
  /\ UNCHANGED <<controllerVars, active_windows_, props, stack, messageVars,
                 initCalls, shutdown>>
  /\ UNCHANGED <<createVars, lastSizes, lastPlace, placement>>

\* HandleMessage(hwnd, WM_ACTIVATE, wparam, lparam); wparam is TRUE when
\* LOWORD(wparam) != WA_INACTIVE.  SetFocus is recorded with the handle of
\* the window whose child content receives the focus.
HostWindowActivate ==
  /\ TopLevel
  /\ \E h \in LiveWindows, wparam \in BOOLEAN :
       /\ ~(HasView(active_windows_[h]) /\ LifecycleManagerHandles("WM_ACTIVATE"))
       /\ lastOp' = OpCalls(Op("WM_ACTIVATE", h, wparam, 0, "0", 0, {}, "none"),
                            IF wparam /\ active_windows_[h].child_content_
                            THEN {<<"SetFocus", h>>} ELSE {})
  /\ UNCHANGED <<controllerVars, active_windows_, props, stack, messageVars,
                 initCalls, shutdown>>
  /\ UNCHANGED <<createVars, lastSizes, lastPlace, placement>>

\* HandleMessage(hwnd, WM_DWMCOLORIZATIONCOLORCHANGED, wparam, lparam)
HostWindowColorizationChanged ==
  /\ TopLevel
  /\ \E h \in LiveWindows :
       /\ ~(HasView(active_windows_[h])
            /\ LifecycleManagerHandles("WM_DWMCOLORIZATIONCOLORCHANGED"))
       /\ lastOp' = OpCalls(Op("WM_DWMCOLORIZATIONCOLORCHANGED", h, FALSE, 0,
                               "0", 0, {}, "none"),
                            {<<"UpdateTheme", h>>})
  /\ UNCHANGED <<controllerVars, active_windows_, props, stack, messageVars,
                 initCalls, shutdown>>
  /\ UNCHANGED <<createVars, lastSizes, lastPlace, placement>>

\* HandleMessage for a message the switch has no case for.
HostWindowOther ==
  /\ TopLevel
  /\ \E h \in LiveWindows :
       /\ ~(HasView(active_windows_[h]) /\ LifecycleManagerHandles("other"))
       /\ lastOp' = Op("other", h, FALSE, 0, DefaultAnswer(active_windows_[h]),
                       0, {}, "none")
  /\ UNCHANGED <<controllerVars, active_windows_, props, stack, messageVars,
                 initCalls, shutdown>>
  /\ UNCHANGED <<createVars, lastSizes, lastPlace, placement>>

\* FlutterHostWindow::FlutterHostWindow(controller, hwnd, view): the entity
\* of a window that exists already.  No view controller is attached; the
\* members the constructor does not write keep their initial values, of
\* which archetype_ may be either.
FlutterHostWindowFromHandle(hwnd, archetype) ==
  [archetype_ |-> archetype,
   window_handle_ |-> hwnd,
   view_id |-> 0,
   min_size_ |-> None,
   max_size_ |-> None,
   state_ |-> "none",
   owned_windows_ |-> {},
   num_owned_popups_ |-> 0,
   pending_show_ |-> PendingShowInitially,
   enable_redraw_non_client_as_inactive_ |-> RedrawAsInactiveInitially,
   child_content_ |-> TRUE,
   gw_owner |-> 0]

\* An entity is made for a top-level window without owner; it is kept in
\* active_windows_, where the model keeps every entity.
AdoptWindow ==
  /\ TopLevel
  /\ numCreates < MaxConstructions
  /\ \E archetype \in Archetypes :
       LET w == FlutterHostWindowFromHandle(nextHandle, archetype)
       IN /\ active_windows_' = Put(active_windows_, nextHandle, w)
          /\ lastCreate' = [n |-> numCreates + 1,
                            archetype |-> archetype,
                            owner |-> 0,
                            positioner |-> FALSE,
                            stage |-> "adopted",
                            hwnd |-> nextHandle,
                            window_handle_ |-> nextHandle,
                            view_id |-> 0,
                            ret |-> 0]
  /\ numCreates' = numCreates + 1
  /\ nextHandle' = nextHandle + 1
  /\ native' = native \cup {nextHandle}
  /\ props' = props \cup {nextHandle}
  /\ UNCHANGED <<views, nextViewId>>
  /\ UNCHANGED <<controllerVars, stack, messageVars, initCalls, shutdown>>
  /\ UNCHANGED entityVars

NextNoView ==
  \/ AdoptWindow
  \/ NewShownWindow
  \/ HostWindowDestroy
  \/ HostWindowNcDestroy
  \/ HostWindowDpiChanged
  \/ HostWindowShowWindow
  \/ HostWindowGetMinMaxInfo
  \/ HostWindowSize
  \/ HostWindowActivate
  \/ HostWindowNcActivate
  \/ HostWindowColorizationChanged
  \/ HostWindowOther

SpecNoView == Init /\ [][NextNoView]_vars

\* ------------------------------------- the client size on its own
\* AdjustWindowRectExForDpi(&rect, ...): the extent of the window rectangle
\* for a client rectangle of the extent given, in whole pixels.
AdjustWindowRectExForDpi(extent, non_client) ==
  Size(extent.w + non_client.w, extent.h + non_client.h)

Max(a, b) == IF a < b THEN b ELSE a

Min(a, b) == IF b < a THEN b ELSE a

\* GetWindowSizeForClientSize, "Apply size constraints": the bound in
\* physical coordinates, min_size / max_size times scale_factor plus the
\* non-client extent, clamped to the virtual screen.
ConstraintSize(bound, scale_factor, non_client_size, screen) ==
  ClampToVirtualScreen(
    Size(bound[1].w * scale_factor + non_client_size.w,
         bound[1].h * scale_factor + non_client_size.h), screen)

\* GetWindowSizeForClientSize(client_size, min_size, max_size, window_style,
\* extended_window_style, owner_hwnd), scale_factor being the DPI scale of
\* owner_hwnd's display (of the primary display without owner_hwnd).  None
\* stands for std::nullopt, returned when AdjustWindowRectExForDpi cannot
\* be loaded or fails.
GetWindowSizeForClientSize(client_size, min_size, max_size, scale_factor, non_client, screen, adjusts) ==
  IF ~adjusts THEN None
  ELSE LET rect == AdjustWindowRectExForDpi(
                     Size(ToLong(client_size.w * scale_factor),
                          ToLong(client_size.h * scale_factor)), non_client)
           non_client_size == Size(rect.w - client_size.w * scale_factor,
                                   rect.h - client_size.h * scale_factor)
           atLeast ==
             IF min_size = None THEN rect
             ELSE LET m == ConstraintSize(min_size, scale_factor,
                                          non_client_size, screen)
                  IN Size(Max(rect.w, m.w), Max(rect.h, m.h))
           atMost ==
             IF max_size = None THEN atLeast
             ELSE LET m == ConstraintSize(max_size, scale_factor,
                                          non_client_size, screen)
                  IN Size(Min(atLeast.w, m.w), Min(atLeast.h, m.h))
       IN Some(atMost)

\* FlutterHostWindow::SetClientSize(client_size): the width and height given
\* to SetWindowPos, which takes whole pixels.  The stored min_size_ and
\* max_size_ are passed as the bounds, and no owner window.
SetClientSize(w, client_size, scale_factor, non_client, screen, adjusts) ==
  LET window_size == GetWindowSizeForClientSize(client_size, w.min_size_,
                                                w.max_size_, scale_factor,
                                                non_client, screen, adjusts)
      size == IF window_size = None THEN client_size ELSE window_size[1]
  IN Size(ToLong(size.w), ToLong(size.h))

\* The logical client sizes asked for: below, between and above the
\* bounds, and between two pixels.
ClientSizes ==
  {Size(1, 1), Size(Pixels(1), Pixels(2)), Size(3, 5),
   Size(Pixels(3), Pixels(3))}

\* flutter_set_window_size(hwnd, width, height): SetClientSize on the entity
\* of hwnd, if it has one.  scale_factor is the DPI scale of the primary
\* display at the time of the call.
flutter_set_window_size ==
  /\ TopLevel
  /\ \E h \in LiveWindows, client_size \in ClientSizes,
        scale_factor \in ScaleFactors, non_client \in NonClientMargins,
        screen \in VirtualScreens, adjusts \in BOOLEAN :
       LET w == active_windows_[h]
           size == SetClientSize(w, client_size, scale_factor, non_client,
                                 screen, adjusts)
       IN lastOp' =
            [OpCalls(Op("flutter_set_window_size", h, adjusts, scale_factor,
                        "none", 0, {}, "none"),
                     {<<"SetWindowPos", h>>})
               EXCEPT !.size = Some(size),
                      !.info = [NoInfo EXCEPT !.non_client = non_client,
                                              !.screen = screen]]
  /\ UNCHANGED <<controllerVars, active_windows_, props, stack, messageVars,
                 initCalls, shutdown>>
  /\ UNCHANGED <<createVars, lastSizes, lastPlace, placement>>

\* Logical bounds for the client size: none, a minimum and a maximum of a
\* whole number of pixels.
ClientSettings ==
  [archetype : {"kRegular"},
   parent_view_id : {0},
   positioner : {FALSE},
   size : {Size(1, 1)},
   min_size : {None, Some(Size(Pixels(1), Pixels(1)))},
   max_size : {None, Some(Size(Pixels(1), Pixels(2)))},
   state : {None}]

\* The constructions that succeed, at either scale factor.
ClientEnvs == {e \in Envs : e.view /\ e.class /\ e.create = "hwnd"}

NewScaledWindow ==
  /\ TopLevel
  /\ numCreates < MaxConstructions
  /\ \E settings \in ClientSettings, env \in ClientEnvs :
       /\ CreateHostWindow(settings, env)
       /\ lastSizes' = [n |-> numCreates + 1,
                        min_size |-> settings.min_size,
                        max_size |-> settings.max_size,
                        scale |-> env.scale]
  /\ UNCHANGED <<controllerVars, stack, messageVars, initCalls, shutdown>>
  /\ UNCHANGED <<lastOp, placement, lastPlace>>

NextClient ==
  \/ NewScaledWindow
  \/ HostWindowGetMinMaxInfo
  \/ flutter_set_window_size

SpecClient == Init /\ [][NextClient]_vars

\* ------------------------------------- the popup count on its own
\* Constructions of every outcome, the failing ones included.
CountedEnvs == {e \in Envs : e.scale = 1}

\* CreateWindow_ with settings that pass the preconditions, in an
\* environment where any later step of the constructor may fail.
NewCountedWindow ==
  /\ TopLevel
  /\ numCreates < MaxWindows
  /\ \E settings \in WindowSettings, env \in CountedEnvs :
       CreateHostWindow(settings, env)
  /\ UNCHANGED <<controllerVars, stack, messageVars, initCalls, shutdown>>
  /\ UNCHANGED entityVars

NextCount ==
  \/ NewCountedWindow
  \/ CloseOwnedPopups
  \/ HostWindowDestroy
  \/ HostWindowNcDestroy

SpecCount == Init /\ [][NextCount]_vars

\* ------------------------------------------------------------ claim helpers
InSeq(x, seq) == \E i \in 1..Len(seq) : seq[i] = x

IsBuffered(id) == InSeq(id, everBuffered)

NoDuplicates(seq) == \A i, j \in 1..Len(seq) : seq[i] = seq[j] => i = j

IsPrefix(a, b) == Len(a) <= Len(b) /\ a = SubSeq(b, 1, Len(a))

InitializeRunning == \E i \in 1..Len(stack) : stack[i].op = "Initialize"

CallbackRunning == \E i \in 1..Len(stack) : stack[i].op = "on_message"

\* The messages that were neither buffered nor passed to the callback.
Dropped(id) == id < nextId /\ ~InSeq(id, delivered) /\ ~IsBuffered(id)

\* ------------------------------------------------------------ claims
\* C1: the events buffered before Initialize reach the callback in arrival
\* order, each exactly once; the buffer is empty once Initialize has
\* returned; no message is ever passed to the callback twice.
C1_BufferedReplayedInOrderOnce ==
  /\ NoDuplicates(delivered)
  /\ IsPrefix(SelectSeq(delivered, IsBuffered), everBuffered)
  /\ (isolate_ /\ ~InitializeRunning) =>
       /\ pending_messages_ = <<>>
       /\ SelectSeq(delivered, IsBuffered) = everBuffered

C1_Witness ==
  /\ initCalls = 2
  /\ stack = <<>>
  /\ Len(everBuffered) >= 2
  /\ delivered = everBuffered

\* C2: every buffered event reaches the callback before any live event does,
\* also when the callback re-enters the controller during the replay.
C2_BufferedBeforeLive ==
  \A i, j \in 1..Len(delivered) :
    (i < j /\ IsBuffered(delivered[j])) => IsBuffered(delivered[i])

\* C3: once OnEngineShutdown has cleared the callback, no HandleMessage call
\* runs the callback or calls the cleared callback.
C3_NoCallbackAfterShutdown ==
  shutdown # "no" => (~CallbackRunning /\ ~null_invoked)

\* C4: once Initialize has been called no message is appended to the buffer,
\* a message with a view is passed to the installed callback in the very
\* HandleMessage call, and the buffer is empty after Initialize has returned.
C4_NeverBufferedAfterInitialize ==
  [][/\ isolate_ => /\ everBuffered' = everBuffered
                    /\ pending_messages_' \in {pending_messages_, <<>>}
     /\ (isolate_ /\ ~InitializeRunning) => pending_messages_ = <<>>
     /\ (isolate_ /\ on_message_ /\ nextId' # nextId
         /\ ~(lastReturn'.id = nextId /\ ~lastReturn'.view)) =>
          /\ delivered' = Append(delivered, nextId)
          /\ stack'[Len(stack')].op = "on_message"
          /\ stack'[Len(stack')].ms.id = nextId]_vars

C4_Witness ==
  /\ isolate_
  /\ ~InitializeRunning
  /\ Len(everBuffered) >= 1
  /\ \E i \in 1..Len(delivered) : ~IsBuffered(delivered[i])

\* C5: when OnEngineShutdown has returned, every window that was registered
\* has unregistered itself: the registry is empty.
C5_ShutdownEmptiesRegistry ==
  shutdown = "done" => DOMAIN active_windows_ = {}

\* C6: HandleMessage returns a value exactly when the callback ran for the
\* message and set the handled flag, and the value is the result slot.
C6_ResultIffHandled ==
  /\ (lastReturn.ret # None) <=> (lastReturn.invoked /\ lastReturn.handled)
  /\ lastReturn.ret # None => lastReturn.ret = Some(lastReturn.result)
  /\ lastReturn.invoked => InSeq(lastReturn.id, delivered)
  /\ (lastReturn.buffered \/ ~lastReturn.view) => ~lastReturn.invoked

C6_Witness ==
  /\ lastReturn.invoked
  /\ lastReturn.handled
  /\ lastReturn.ret = Some(1)

C8_NoViewDropped ==
  [][(nextId' # nextId /\ lastReturn'.id = nextId /\ ~lastReturn'.view) =>
       /\ pending_messages_' = pending_messages_
       /\ everBuffered' = everBuffered
       /\ delivered' = delivered
       /\ lastReturn'.ret = None
       /\ ~lastReturn'.invoked
       /\ ~lastReturn'.buffered
       /\ null_invoked' = null_invoked
       /\ crashed' = crashed
       /\ on_message_' = on_message_
       /\ isolate_' = isolate_]_vars

C8_Witness ==
  /\ ~null_invoked
  /\ \E i, j \in 1..(nextId - 1) :
       i < j /\ Dropped(i) /\ InSeq(j, delivered)

\* C9: a construction that obtains no native window makes CreateWindow_
\* return 0 and leave the registry as it was; one that obtains a window adds
\* exactly the entry for its handle and returns the entity's view id.
C9_FailedCreationRegistersNothing ==
  [][numCreates' # numCreates =>
       IF lastCreate'.hwnd = 0
       THEN /\ lastCreate'.ret = 0
            /\ active_windows_' = active_windows_
       ELSE /\ lastCreate'.hwnd \notin DOMAIN active_windows_
            /\ DOMAIN active_windows_' =
                 DOMAIN active_windows_ \cup {lastCreate'.hwnd}
            /\ \A h \in DOMAIN active_windows_ :
                 active_windows_'[h] = active_windows_[h]
            /\ lastCreate'.ret = active_windows_'[lastCreate'.hwnd].view_id
            /\ lastCreate'.ret # 0]_vars

\* C10: a Regular window given an owner or a positioner, and a Popup given no
\* owner or no positioner, is not constructed: the constructor returns at
\* the precondition, before a view or a window exists, without a handle.
C10_PreconditionAborts ==
  (/\ lastCreate.n > 0
   /\ \/ /\ lastCreate.archetype = "kRegular"
         /\ (lastCreate.owner # 0 \/ lastCreate.positioner)
      \/ /\ lastCreate.archetype = "kPopup"
         /\ (lastCreate.owner = 0 \/ ~lastCreate.positioner)) =>
    /\ lastCreate.stage = "precondition"
    /\ lastCreate.window_handle_ = 0
    /\ lastCreate.view_id = 0
    /\ lastCreate.ret = 0

C10_Witness ==
  /\ lastCreate.archetype = "kRegular"
  /\ lastCreate.owner # 0
  /\ lastCreate.owner \in native
  /\ lastCreate.window_handle_ = 0

\* Component-wise order of two sizes.
SizeLeq(a, b) == a.w <= b.w /\ a.h <= b.h

\* C11: a construction given both a minimum and a maximum fails at the size
\* validation, without a handle, exactly when the minimum exceeds the maximum
\* in width or in height; every registered entity that stores both bounds
\* has min_size_ <= max_size_ in both components, whatever the scale factor.
C11_MinAboveMaxFails ==
  /\ (lastSizes.n > 0 /\ lastSizes.min_size # None /\ lastSizes.max_size # None) =>
        /\ (lastCreate.stage = "size_constraints") <=>
              ~SizeLeq(lastSizes.min_size[1], lastSizes.max_size[1])
        /\ lastCreate.stage = "size_constraints" =>
              /\ lastCreate.window_handle_ = 0
              /\ lastCreate.ret = 0
  /\ (lastSizes.n > 0 /\ lastCreate.stage = "size_constraints") =>
        (lastSizes.min_size # None /\ lastSizes.max_size # None)
  /\ \A h \in DOMAIN active_windows_ :
        LET w == active_windows_[h]
        IN (w.min_size_ # None /\ w.max_size_ # None) =>
             SizeLeq(w.min_size_[1], w.max_size_[1])

C11_Witness ==
  /\ lastCreate.stage = "hwnd"
  /\ lastSizes.scale = 2
  /\ lastCreate.window_handle_ \in DOMAIN active_windows_
  /\ active_windows_[lastCreate.window_handle_].min_size_ = Some(Size(2, 4))
  /\ active_windows_[lastCreate.window_handle_].max_size_ = Some(Size(4, 4))

\* C12: a bound with an infinite component counts as no bound: the
\* construction fails at the size validation exactly when the same
\* construction with that bound absent does.
C12_InfiniteBoundAsAbsent ==
  lastSizes.n > 0 =>
    ((lastCreate.stage = "size_constraints") <=>
       ~SizeConstraintsValid(DiscardInfinite(lastSizes.min_size),
                             DiscardInfinite(lastSizes.max_size)))

\* An entity whose window exists and is not in the middle of its destruction.
Live(h) == h \in LiveWindows /\ ~BeingDestroyed(h)

\* The live Popups whose window Win32 reports as owned by the window of h.
LivePopupsOwnedBy(h) ==
  {p \in DOMAIN active_windows_ :
     /\ Live(p)
     /\ active_windows_[p].archetype_ = "kPopup"
     /\ GetWindowOwner(active_windows_, p) = h}

\* The step is a call of the host-window operation op.
OpStep(op) == lastOp'.seq # lastOp.seq /\ lastOp'.op = op

\* C13: for all live entities w and o, w is a member of o's owned set
\* exactly when o is w's owner; no owned set holds an entity that has been
\* destroyed.
C13_OwnedSetMirrorsOwner ==
  /\ \A w, o \in DOMAIN active_windows_ :
       (Live(w) /\ Live(o)) =>
         ((w \in active_windows_[o].owned_windows_) <=>
            (GetOwnerWindow(active_windows_, w) = o))
  /\ \A o \in DOMAIN active_windows_ :
       active_windows_[o].owned_windows_ \subseteq LiveWindows

\* C14: each entity's num_owned_popups_ equals the number of Popup members
\* of its owned set.
C14_PopupCountMatchesOwnedSet ==
  \A o \in DOMAIN active_windows_ :
    active_windows_[o].num_owned_popups_ =
      Cardinality(OwnedPopups(active_windows_, o))

\* C15: every entity named by a registered entity's owner link or owned set
\* is registered: no Popup outlives its owner in the registry and no owned
\* set names an entity the registry has destroyed.
C15_LinksStayInRegistry ==
  \A h \in DOMAIN active_windows_ :
    /\ active_windows_[h].gw_owner # 0 =>
         active_windows_[h].gw_owner \in DOMAIN active_windows_
    /\ active_windows_[h].owned_windows_ \subseteq DOMAIN active_windows_

C15_Witness ==
  /\ stack = <<>>
  /\ numCreates = 3
  /\ Cardinality(DOMAIN active_windows_) = 2
  /\ \E o, p \in DOMAIN active_windows_ :
       /\ active_windows_[p].gw_owner = o
       /\ active_windows_[o].owned_windows_ = {p}

\* C16: CloseOwnedPopups returns the number of Popups it removed from the
\* owned set, which is the number of Popups the entity owned when it was
\* called and the decrease of its num_owned_popups_.
C16_ReturnsPopupsRemoved ==
  [][OpStep("CloseOwnedPopups") =>
       LET h == lastOp'.hwnd
           before == active_windows_[h]
           after == active_windows_'[h]
       IN /\ lastOp'.count = Cardinality(OwnedPopups(active_windows_, h))
          /\ lastOp'.count =
               Cardinality(before.owned_windows_ \ after.owned_windows_)
          /\ lastOp'.count =
               before.num_owned_popups_ - after.num_owned_popups_]_vars

\* C17: CloseOwnedPopups on an entity whose num_owned_popups_ is 0 returns 0
\* and changes no entity, not the registry and no window, and posts no
\* WM_CLOSE.
C17_NoPopupsNoOp ==
  [][(/\ OpStep("CloseOwnedPopups")
      /\ active_windows_[lastOp'.hwnd].num_owned_popups_ = 0) =>
       /\ lastOp'.count = 0
       /\ lastOp'.closed = {}
       /\ active_windows_' = active_windows_
       /\ native' = native
       /\ props' = props]_vars

C17_Witness ==
  /\ lastOp.op = "CloseOwnedPopups"
  /\ lastOp.count = 0
  /\ lastOp.closed = {}
  /\ lastOp.hwnd \in DOMAIN active_windows_
  /\ active_windows_[lastOp.hwnd].num_owned_popups_ = 0
  /\ active_windows_[lastOp.hwnd].owned_windows_ = {}
  /\ \E o \in DOMAIN active_windows_ :
       /\ active_windows_[o].num_owned_popups_ = 1
       /\ active_windows_[o].owned_windows_ # {}

\* C18: when a Regular window owns two Popups and WM_DESTROY of one of them
\* is handled, the owner's num_owned_popups_ goes from 2 to 1, the other
\* Popup stays in the owned set with its owner link, and the owner answers
\* an inactive WM_NCACTIVATE with TRUE as long as the count is above zero.
C18_ClosingOneOfTwoPopups ==
  [][/\ OpStep("WM_DESTROY") =>
          LET p == lastOp'.hwnd
              o == GetOwnerWindow(active_windows_, p)
          IN (/\ active_windows_[p].archetype_ = "kPopup"
              /\ o # 0
              /\ active_windows_[o].archetype_ = "kRegular"
              /\ active_windows_[o].num_owned_popups_ = 2
              /\ Cardinality(active_windows_[o].owned_windows_) = 2
              /\ p \in active_windows_[o].owned_windows_) =>
               /\ active_windows_'[o].num_owned_popups_ = 1
               /\ active_windows_'[o].owned_windows_ =
                    active_windows_[o].owned_windows_ \ {p}
               /\ \A q \in active_windows_'[o].owned_windows_ :
                    /\ active_windows_'[q] = active_windows_[q]
                    /\ active_windows_'[q].gw_owner = o
               /\ ~crashed'
     /\ (/\ OpStep("WM_NCACTIVATE")
         /\ ~lastOp'.wparam
         /\ active_windows_[lastOp'.hwnd].archetype_ = "kRegular"
         /\ active_windows_[lastOp'.hwnd].num_owned_popups_ > 0) =>
           lastOp'.ret = "TRUE"]_vars

C18_Witness ==
  /\ lastOp.op = "WM_NCACTIVATE"
  /\ ~lastOp.wparam
  /\ lastOp.ret = "TRUE"
  /\ numCreates = 3
  /\ DOMAIN active_windows_ = {1, 3}
  /\ lastOp.hwnd = 1
  /\ active_windows_[1].archetype_ = "kRegular"
  /\ active_windows_[1].num_owned_popups_ = 1
  /\ active_windows_[1].owned_windows_ = {3}

\* C19: an inactive WM_NCACTIVATE is answered TRUE exactly when the entity
\* is not a Popup and either owns a live Popup or has the redraw of the
\* inactive frame disabled; a Popup never answers TRUE and an active
\* WM_NCACTIVATE always gets the default answer.
C19_ForcedActiveIffPopups ==
  [][OpStep("WM_NCACTIVATE") =>
       LET h == lastOp'.hwnd
           w == active_windows_[h]
       IN /\ (lastOp'.ret = "TRUE") <=>
               /\ ~lastOp'.wparam
               /\ w.archetype_ # "kPopup"
               /\ \/ LivePopupsOwnedBy(h) # {}
                  \/ ~w.enable_redraw_non_client_as_inactive_
          /\ lastOp'.ret \in {"TRUE", "DefWindowProc"}
          /\ active_windows_' = active_windows_]_vars

C19_Witness ==
  /\ lastOp.op = "WM_NCACTIVATE"
  /\ ~lastOp.wparam
  /\ lastOp.ret = "DefWindowProc"
  /\ lastOp.hwnd \in DOMAIN active_windows_
  /\ active_windows_[lastOp.hwnd].archetype_ = "kPopup"
  /\ LivePopupsOwnedBy(lastOp.hwnd) # {}

\* The show command that belongs to an entity's archetype and state.
ShowCommandFor(w) ==
  IF w.archetype_ = "kPopup" THEN "SW_SHOWNORMAL"
  ELSE IF w.state_ = "kMaximized" THEN "SW_SHOWMAXIMIZED"
  ELSE IF w.state_ = "kMinimized" THEN "SW_SHOWMINIMIZED"
  ELSE "SW_SHOW"

\* C20: pending_show_ is TRUE from creation until the first show
\* notification is handled; that notification clears it and applies the one
\* show command that belongs to the archetype and state; a cleared latch is
\* never set again and no later WM_SHOWWINDOW applies a show command.
C20_PendingShowLatch ==
  [][/\ \A h \in DOMAIN active_windows_' :
          IF h \in DOMAIN active_windows_
          THEN /\ active_windows_'[h].pending_show_ =>
                    active_windows_[h].pending_show_
               /\ (/\ active_windows_[h].pending_show_
                   /\ ~active_windows_'[h].pending_show_) =>
                     /\ OpStep("WM_SHOWWINDOW")
                     /\ lastOp'.hwnd = h
          ELSE active_windows_'[h].pending_show_
     /\ OpStep("WM_SHOWWINDOW") =>
          LET h == lastOp'.hwnd
              w == active_windows_[h]
          IN IF lastOp'.wparam /\ lastOp'.lparam = 0 /\ w.pending_show_
             THEN /\ ~active_windows_'[h].pending_show_
                  /\ lastOp'.show_cmd = ShowCommandFor(w)
                  /\ active_windows_' =
                       [active_windows_ EXCEPT ![h].pending_show_ = FALSE]
             ELSE /\ lastOp'.show_cmd = "none"
                  /\ active_windows_' = active_windows_]_vars

C20_Witness ==
  /\ lastOp.op = "WM_SHOWWINDOW"
  /\ lastOp.wparam
  /\ lastOp.lparam = 0
  /\ lastOp.show_cmd = "none"
  /\ lastOp.hwnd \in DOMAIN active_windows_
  /\ active_windows_[lastOp.hwnd].archetype_ = "kRegular"
  /\ active_windows_[lastOp.hwnd].state_ = "kMaximized"
  /\ ~active_windows_[lastOp.hwnd].pending_show_

\* C21: for a Regular window that has had its first show, the state GetState
\* returns equals the show state of the native window, whatever SetState
\* calls, flutter_set_window_state calls and native minimize / maximize /
\* restore notifications came before.
C21_StateMirrorsNative ==
  \A h \in LiveWindows :
    (/\ active_windows_[h].archetype_ = "kRegular"
     /\ ~active_windows_[h].pending_show_) =>
      GetState(active_windows_[h]) = flutter_get_window_state(h)

\* The Win32 calls that move, resize or re-place a window.
GeometryCalls == {"SetWindowPos", "MoveWindow", "SetWindowPlacement"}

\* C22: when an entity without view handles a message of any category, it
\* returns 0, does not call DefWindowProc, and changes nothing: no entity's
\* owned_windows_, num_owned_popups_ or pending_show_, no window's geometry.
C22_NoViewNoOp ==
  [][(/\ lastOp'.seq # lastOp.seq
      /\ lastOp'.hwnd \in DOMAIN active_windows_
      /\ ~HasView(active_windows_[lastOp'.hwnd])) =>
       /\ lastOp'.ret = "0"
       /\ active_windows_' = active_windows_
       /\ placement' = placement
       /\ \A c \in lastOp'.calls : c[1] \notin GeometryCalls
       /\ ~crashed']_vars

\* The length of the sequence a loop frame iterates.
LoopLength(frame) ==
  IF frame.op = "Initialize" THEN Len(pending_messages_) ELSE Len(frame.handles)

AnchorInsideFrameSmaller(a, output) ==
  /\ output.lo <= a.anchor_rect.lo
  /\ a.anchor_rect.hi <= output.hi
  /\ a.frame < output.hi - output.lo

\* C24: for every gravity combination, when the anchor rectangle lies inside
\* the output rectangle and the frame is smaller than it in both
\* dimensions, the rectangle PlaceWindow returns lies inside the output
\* rectangle.
C24_PlacedInsideOutput ==
  (/\ lastPlace.n > 0
   /\ AnchorInsideFrameSmaller(lastPlace.x, OutputRect.x)
   /\ AnchorInsideFrameSmaller(lastPlace.y, OutputRect.y)) =>
    /\ Fits(lastPlace.rect.left, lastPlace.rect.width, OutputRect.x)
    /\ Fits(lastPlace.rect.top, lastPlace.rect.height, OutputRect.y)

\* The base placement overflows on both axes, flipping resolves neither,
\* and the frame came to lie inside the output rectangle.
C24_Witness ==
  /\ lastPlace.n > 0
  /\ AnchorInsideFrameSmaller(lastPlace.x, OutputRect.x)
  /\ AnchorInsideFrameSmaller(lastPlace.y, OutputRect.y)
  /\ ~Fits(BasePlacement(lastPlace.x), lastPlace.x.frame, OutputRect.x)
  /\ ~Fits(FlippedPlacement(lastPlace.x), lastPlace.x.frame, OutputRect.x)
  /\ ~Fits(BasePlacement(lastPlace.y), lastPlace.y.frame, OutputRect.y)
  /\ ~Fits(FlippedPlacement(lastPlace.y), lastPlace.y.frame, OutputRect.y)
  /\ Fits(lastPlace.rect.left, lastPlace.rect.width, OutputRect.x)
  /\ Fits(lastPlace.rect.top, lastPlace.rect.height, OutputRect.y)

\* The precedence on one axis, read off the arguments a and the placement
\* [pos, length] returned for the axis.
PrecedenceKept(a, pos, length, output) ==
  LET base == BasePlacement(a)
      flipped == FlippedPlacement(a)
      overflows == ~Fits(base, a.frame, output)
      flipFits == Fits(flipped, a.frame, output)
  IN /\ ~overflows => pos = base /\ length = a.frame
     /\ (overflows /\ flipFits) => pos = flipped /\ length = a.frame
     /\ (length = a.frame /\ pos # base /\ pos # flipped) =>
          /\ overflows
          /\ ~flipFits
          /\ Fits(pos, length, output)
          /\ \/ pos = output.lo /\ base < output.lo
             \/ pos + length = output.hi /\ base > pos
     /\ length # a.frame =>
          /\ overflows
          /\ ~flipFits
          /\ a.frame > output.hi - output.lo
          /\ length < a.frame
          /\ Fits(pos, length, output)
     /\ length <= a.frame

\* C25: on each axis, a base placement that overflows and whose mirror
\* image fits is replaced by the mirror image, the frame neither slid nor
\* resized; the frame is slid only when the mirror image does not fit, and
\* resized only when sliding cannot bring it inside; it never grows.
C25_FlipSlideResize ==
  lastPlace.n > 0 =>
    /\ PrecedenceKept(lastPlace.x, lastPlace.rect.left, lastPlace.rect.width,
                      OutputRect.x)
    /\ PrecedenceKept(lastPlace.y, lastPlace.rect.top, lastPlace.rect.height,
                      OutputRect.y)

\* Horizontally the flip resolved the overflow; vertically it did not and
\* the frame was slid.
C25_Witness ==
  /\ lastPlace.n > 0
  /\ ~Fits(BasePlacement(lastPlace.x), lastPlace.x.frame, OutputRect.x)
  /\ Fits(FlippedPlacement(lastPlace.x), lastPlace.x.frame, OutputRect.x)
  /\ lastPlace.rect.left = FlippedPlacement(lastPlace.x)
  /\ lastPlace.rect.left # BasePlacement(lastPlace.x)
  /\ ~Fits(BasePlacement(lastPlace.y), lastPlace.y.frame, OutputRect.y)
  /\ ~Fits(FlippedPlacement(lastPlace.y), lastPlace.y.frame, OutputRect.y)
  /\ lastPlace.rect.height = lastPlace.y.frame
  /\ lastPlace.rect.top # BasePlacement(lastPlace.y)

\* C26: whenever CloseOwnedPopups sends all the live popups of an owner to
\* close, the non-client area of that owner is repainted (SetWindowPos with
\* SWP_FRAMECHANGED) at least once during the call.
C26_OwnerRepainted ==
  [][(/\ OpStep("CloseOwnedPopups")
      /\ lastOp'.closed # {}
      /\ lastOp'.closed = LivePopupsOwnedBy(lastOp'.hwnd)) =>
       <<"SetWindowPos", lastOp'.hwnd>> \in lastOp'.calls]_vars

\* C27: when WM_DESTROY of a Popup with a live owner is handled, the focus
\* is given to the owner's content exactly when the owner's
\* num_owned_popups_ has dropped to zero.
C27_FocusIffLastPopup ==
  [][(/\ OpStep("WM_DESTROY")
      /\ UnlinksFromOwner(active_windows_, lastOp'.hwnd)
      /\ ~crashed') =>
       LET o == GetOwnerWindow(active_windows_, lastOp'.hwnd)
       IN (<<"SetFocus", o>> \in lastOp'.calls) <=>
            (active_windows_'[o].num_owned_popups_ = 0)]_vars

\* The messages an entity handles.
WindowMessages ==
  {"WM_DESTROY", "WM_DPICHANGED", "WM_SHOWWINDOW", "WM_GETMINMAXINFO",
   "WM_SIZE", "WM_ACTIVATE", "WM_NCACTIVATE",
   "WM_DWMCOLORIZATIONCOLORCHANGED", "other"}

ClosingPopupOf(h) ==
  /\ stack # <<>>
  /\ Top.op = "CloseOwnedPopups"
  /\ Top.message = "PostMessage"
  /\ GetOwnerWindow(active_windows_, Top.handles[Top.idx]) = h

\* C28: an entity has enable_redraw_non_client_as_inactive_ cleared only
\* while a CloseOwnedPopups call is between clearing it and posting WM_CLOSE
\* to a popup of that entity; it is set again by the same call right after,
\* and whenever an entity handles a message every entity has it set.
C28_SuppressionOnlyInsideClose ==
  [][/\ \A h \in DOMAIN active_windows_' :
          ~active_windows_'[h].enable_redraw_non_client_as_inactive_ =>
            ClosingPopupOf(h)'
     /\ \A h \in DOMAIN active_windows_ :
          ~active_windows_[h].enable_redraw_non_client_as_inactive_ =>
            /\ h \in DOMAIN active_windows_'
            /\ active_windows_'[h].enable_redraw_non_client_as_inactive_
            /\ lastOp'.seq # lastOp.seq
            /\ lastOp'.op = "PostMessage"
     /\ (lastOp'.seq # lastOp.seq /\ lastOp'.op \in WindowMessages) =>
          \A h \in DOMAIN active_windows_ :
            active_windows_[h].enable_redraw_non_client_as_inactive_]_vars

\* CloseOwnedPopups has run on an owner whose popup is still alive, and the
\* owner handles an inactive WM_NCACTIVATE with its flag set.
C28_Witness ==
  /\ lastOp.op = "WM_NCACTIVATE"
  /\ ~lastOp.wparam
  /\ lastOp.hwnd \in DOMAIN active_windows_
  /\ LivePopupsOwnedBy(lastOp.hwnd) # {}
  /\ active_windows_[lastOp.hwnd].owned_windows_ = {}
  /\ active_windows_[lastOp.hwnd].enable_redraw_non_client_as_inactive_

\* C29: a construction of a Regular or Popup entity that stops at a
\* precondition, at the size validation or at a failing resource leaves the
\* registry, every registered entity (the intended owner with its
\* owned_windows_ and num_owned_popups_ among them) and the native windows
\* as they were.
C29_FailedConstructionLeavesNothing ==
  [][(numCreates' # numCreates /\ lastCreate'.stage # "hwnd") =>
       /\ active_windows_' = active_windows_
       /\ native' = native
       /\ props' = props
       /\ views' = views]_vars

\* One component of a reported track size against the stored bound v, the
\* non-client margin m and the extent e of the virtual screen: the sum
\* brought into 0..e, as a whole number of pixels (the fraction dropped).
ComponentReported(reported, v, m, e) ==
  LET sum == v + m
      exact == IF sum < 0 THEN 0 ELSE IF sum > e THEN e ELSE sum
  IN /\ reported <= exact
     /\ exact - reported < Pixels(1)
     /\ reported % Pixels(1) = 0
     /\ 0 <= reported
     /\ reported <= e

BoundReported(reported, stored, info) ==
  IF stored = None THEN reported = None
  ELSE /\ reported # None
       /\ ComponentReported(reported[1].w, stored[1].w, info.non_client.w,
                            info.screen.w)
       /\ ComponentReported(reported[1].h, stored[1].h, info.non_client.h,
                            info.screen.h)

\* C30: WM_GETMINMAXINFO reports, for each stored bound, the bound plus the
\* non-client margin clamped per component to 0 .. virtual-screen extent
\* (as whole pixels); no reported component is negative or beyond the
\* virtual screen; with both bounds stored the reported minimum does not
\* exceed the reported maximum; an absent bound is not reported.
C30_TrackSizesClamped ==
  lastOp.op = "WM_GETMINMAXINFO" =>
    LET w == active_windows_[lastOp.hwnd]
        info == lastOp.info
    IN /\ BoundReported(info.min, w.min_size_, info)
       /\ BoundReported(info.max, w.max_size_, info)
       /\ (w.min_size_ # None /\ w.max_size_ # None) =>
            /\ info.min[1].w <= info.max[1].w
            /\ info.min[1].h <= info.max[1].h
       /\ lastOp.ret = "0"

\* Both bounds are stored; the minimum is clamped at 0 and the maximum at
\* the extent of the virtual screen.
C30_Witness ==
  /\ lastOp.op = "WM_GETMINMAXINFO"
  /\ active_windows_[lastOp.hwnd].min_size_ # None
  /\ active_windows_[lastOp.hwnd].max_size_ # None
  /\ active_windows_[lastOp.hwnd].min_size_[1].w + lastOp.info.non_client.w < 0
  /\ lastOp.info.min[1].w = 0
  /\ active_windows_[lastOp.hwnd].max_size_[1].w + lastOp.info.non_client.w
       > lastOp.info.screen.w
  /\ lastOp.info.max[1].w = lastOp.info.screen.w
  /\ lastOp.info.min[1].h < active_windows_[lastOp.hwnd].min_size_[1].h
                             + lastOp.info.non_client.h

\* C31: the popup-count assertion never fires: whenever the WM_DESTROY of a
\* Popup decrements its owner's num_owned_popups_, the count is greater than
\* zero beforehand, and the process goes on.
C31_PopupCountNeverUnderflows ==
  [][\A h \in LiveWindows :
       (/\ lastOp'.op = "WM_DESTROY"
        /\ lastOp'.seq # lastOp.seq
        /\ lastOp'.hwnd = h
        /\ UnlinksFromOwner(active_windows_, h)) =>
         /\ active_windows_[GetOwnerWindow(active_windows_, h)].num_owned_popups_ > 0
         /\ ~crashed'
         /\ active_windows_'[GetOwnerWindow(active_windows_, h)].num_owned_popups_ >= 0]_vars

\* CloseOwnedPopups has closed the two Popups of an owner, and the first of
\* them has been destroyed: the owner's count went from 2 to 1 with no Popup
\* left in owned_windows_.
C31_Witness ==
  /\ lastOp.op = "WM_DESTROY"
  /\ ~crashed
  /\ lastOp.hwnd \in DOMAIN active_windows_
  /\ active_windows_[lastOp.hwnd].archetype_ = "kPopup"
  /\ GetOwnerWindow(active_windows_, lastOp.hwnd) # 0
  /\ LET o == active_windows_[GetOwnerWindow(active_windows_, lastOp.hwnd)]
     IN o.num_owned_popups_ = 1 /\ o.owned_windows_ = {}

\* One bound of the size-constraint query kept by the size applied: below
\* says whether the bound is the minimum.
KeepsBound(size, reported, below) ==
  reported # None =>
    IF below
    THEN reported[1].w <= size.w /\ reported[1].h <= size.h
    ELSE size.w <= reported[1].w /\ size.h <= reported[1].h

\* C32: the size that SetClientSize gives to SetWindowPos lies within the
\* minimum and maximum track sizes that the same window reports for
\* WM_GETMINMAXINFO, at every scale factor.
C32_ClientSizeWithinReported ==
  lastOp.op = "flutter_set_window_size" =>
    LET w == active_windows_[lastOp.hwnd]
        info == lastOp.info
    IN /\ KeepsBound(lastOp.size[1],
                     TrackSize(w.min_size_, info.non_client, info.screen), TRUE)
       /\ KeepsBound(lastOp.size[1],
                     TrackSize(w.max_size_, info.non_client, info.screen), FALSE)

====
